---- MODULE Spec2Model ----
(***************************************************************************)
(* Block Till You Drop: the simulation core of src/main.cpp as a state     *)
(* machine.  One iteration of the main loop (a tick) is split into its     *)
(* stages, in source order; pc names the stage that runs next.             *)
(*                                                                         *)
(* Lengths are in pixels and times in clock units, both scaled down so     *)
(* that the grid is small: every float of the source holds an integer      *)
(* here, and a conversion (int)v is truncation toward zero.                *)
(***************************************************************************)
EXTENDS Integers, Sequences, FiniteSets, TLC

\* ------------------------------------------------------------ geometry
COLS == 3
ROWS == 3
CELL == 2
SCREEN_WIDTH == COLS * CELL
SCREEN_HEIGHT == ROWS * CELL

\* ------------------------------------------------------------ tunables
playerSpeed == 1
GRAVITY == 1
JumpSpeed == 2
JUMP_V == 0 - JumpSpeed
ABILITY_CD == 2
spawnInterval == 5
baseFall == 1
maxExtra == 0
RampTicks == 12
POWERUP_MAX_GAP == 8
FREEZE_DURATION == 6
BombRad == 1
PlayerDrop == 1

\* ------------------------------------------------------------ bounds
MaxDt == 1
MaxElapsed == 13
MaxElapsedDeep == 28

NORMAL == "NORMAL"
BOMB == "BOMB"
FREEZE == "FREEZE"
LASER_H == "LASER_H"
LASER_V == "LASER_V"
BlockType == {NORMAL, BOMB, FREEZE, LASER_H, LASER_V}

VARIABLES
    staticBlocks,          \* sequence of Block [col, row, type]
    fallingShapes,         \* sequence of FallingShape [x, y, speed, cells, types]
    player,                \* SDL_Rect [x, y, w, h]
    playerVy, onGround, prevJump,
    spawnTimer, elapsedTime,
    cdLeft, cdRight, cdUp, cdDown,
    timeSinceLastPowerup, freezeTimer,
    gameOver,
    dt,                    \* this tick's clamped time delta
    pc                     \* the stage of the loop body that runs next

vars == <<staticBlocks, fallingShapes, player, playerVy, onGround, prevJump,
          spawnTimer, elapsedTime, cdLeft, cdRight, cdUp, cdDown,
          timeSinceLastPowerup, freezeTimer, gameOver, dt, pc>>

\* ------------------------------------------------------------ arithmetic
Min(a, b) == IF a < b THEN a ELSE b
Max(a, b) == IF a > b THEN a ELSE b
Abs(a) == IF a < 0 THEN 0 - a ELSE a
\* C integer division and the (int) cast: truncation toward zero.
TruncDiv(a, b) == IF a >= 0 THEN a \div b ELSE 0 - ((0 - a) \div b)
SetMax(S) == CHOOSE m \in S : \A n \in S : n <= m

Point(x, y) == [x |-> x, y |-> y]
MkBlock(c, r, t) == [col |-> c, row |-> r, type |-> t]
InGrid(c, r) == r >= 0 /\ r < ROWS /\ c >= 0 /\ c < COLS

rectsOverlap(a, b) ==
    /\ a.x < b.x + b.w
    /\ a.x + a.w > b.x
    /\ a.y < b.y + b.h
    /\ a.y + a.h > b.y

\* ------------------------------------------------------------ GridModel
buildOcc(blocks) ==
    [r \in 0..(ROWS - 1) |-> [c \in 0..(COLS - 1) |->
        \E i \in 1..Len(blocks) : blocks[i].row = r /\ blocks[i].col = c]]

\* A typeAt in which the first block written on a cell wins.
buildTypeAtFirst(blocks) ==
    [r \in 0..(ROWS - 1) |-> [c \in 0..(COLS - 1) |->
        LET at == {i \in 1..Len(blocks) : blocks[i].row = r /\ blocks[i].col = c}
        IN  IF at = {} THEN NORMAL
            ELSE blocks[CHOOSE i \in at : \A j \in at : i <= j].type]]

\* typeAt of resolveFloatingClusters: the last block written on a cell wins.
buildTypeAt(blocks) ==
    [r \in 0..(ROWS - 1) |-> [c \in 0..(COLS - 1) |->
        LET at == {i \in 1..Len(blocks) : blocks[i].row = r /\ blocks[i].col = c}
        IN  IF at = {} THEN NORMAL ELSE blocks[SetMax(at)].type]]

\* ------------------------------------------------------------ ConnectivityResolver
neighboursNoUp(p) ==
    << Point(p.x + 1, p.y), Point(p.x - 1, p.y), Point(p.x, p.y + 1) >>

\* dc = {1,-1,0,0}, dr = {0,0,1,-1}
neighbours(p) ==
    << Point(p.x + 1, p.y), Point(p.x - 1, p.y),
       Point(p.x, p.y + 1), Point(p.x, p.y - 1) >>

\* The for-k loop of the flood fill: push every unvisited occupied neighbour.
RECURSIVE pushNeighbours(_, _, _, _, _)
pushNeighbours(occ, ns, k, q, visited) ==
    IF k > Len(ns) THEN [q |-> q, visited |-> visited]
    ELSE LET n == ns[k] IN
         IF ~InGrid(n.x, n.y) THEN pushNeighbours(occ, ns, k + 1, q, visited)
         ELSE IF ~occ[n.y][n.x] \/ <<n.x, n.y>> \in visited
              THEN pushNeighbours(occ, ns, k + 1, q, visited)
              ELSE pushNeighbours(occ, ns, k + 1, Append(q, n),
                                  visited \cup {<<n.x, n.y>>})

\* The while (!q.empty()) loop: cells in the order they are popped.
RECURSIVE floodFill(_, _, _, _)
floodFill(occ, q, cells, visited) ==
    IF q = <<>> THEN [cells |-> cells, visited |-> visited]
    ELSE LET p == Head(q)
             nx == pushNeighbours(occ, neighbours(p), 1, Tail(q), visited)
         IN  floodFill(occ, nx.q, Append(cells, p), nx.visited)

\* A ground test one row too low, which no cell passes.
groundRowOff == ROWS

groundRow == ROWS - 1

\* One pass of the support loop for member cell p: ground, external tile
\* directly below, player directly beneath.
\* A support test that also counts an occupied cell diagonally below.
cellSupportsDiagonal(p, cells, occ, foot) ==
    \/ p.y = groundRow
    \/ /\ p.y + 1 < ROWS
       /\ \E c \in {p.x - 1, p.x, p.x + 1} \cap (0..(COLS - 1)) :
             /\ occ[p.y + 1][c]
             /\ ~(\E j \in 1..Len(cells) : cells[j].x = c /\ cells[j].y = p.y + 1)
    \/ /\ p.y + 1 >= foot.top /\ p.y + 1 <= foot.bot
       /\ p.x >= foot.left /\ p.x <= foot.right

cellSupports(p, cells, occ, foot) ==
    \/ p.y = groundRow
    \/ /\ p.y + 1 < ROWS
       /\ occ[p.y + 1][p.x]
       /\ ~(\E j \in 1..Len(cells) : cells[j].x = p.x /\ cells[j].y = p.y + 1)
    \/ /\ p.y + 1 >= foot.top /\ p.y + 1 <= foot.bot
       /\ p.x >= foot.left /\ p.x <= foot.right

isSupported(cells, occ, foot) ==
    \E i \in 1..Len(cells) : cellSupports(cells[i], cells, occ, foot)

minCol(cells) == CHOOSE m \in {cells[i].x : i \in 1..Len(cells)} :
                    \A i \in 1..Len(cells) : m <= cells[i].x
minRow(cells) == CHOOSE m \in {cells[i].y : i \in 1..Len(cells)} :
                    \A i \in 1..Len(cells) : m <= cells[i].y

\* The cluster taken as it stands: the cells keep their grid coordinates.
clusterShapeNoNorm(cells, typeAt, fallSpeed) ==
    [x |-> minCol(cells) * CELL, y |-> minRow(cells) * CELL,
     speed |-> fallSpeed,
     cells |-> cells,
     types |-> [i \in 1..Len(cells) |-> typeAt[cells[i].y][cells[i].x]]]

\* A floating component as one rigid falling shape.
clusterShape(cells, typeAt, fallSpeed) ==
    LET minC == minCol(cells)
        minR == minRow(cells)
    IN  [x |-> minC * CELL, y |-> minR * CELL, speed |-> fallSpeed,
         cells |-> [i \in 1..Len(cells) |-> Point(cells[i].x - minC, cells[i].y - minR)],
         types |-> [i \in 1..Len(cells) |-> typeAt[cells[i].y][cells[i].x]]]

clusterBlocks(cells, typeAt) ==
    [i \in 1..Len(cells) |-> MkBlock(cells[i].x, cells[i].y, typeAt[cells[i].y][cells[i].x])]

\* The r0/c0 scan, cell idx = r0 * COLS + c0.  comps records the components
\* in the order they are collected; it is not program state.
RECURSIVE scanGrid(_, _, _, _, _, _)
scanGrid(idx, occ, typeAt, fallSpeed, foot, acc) ==
    IF idx >= ROWS * COLS THEN acc
    ELSE LET r0 == idx \div COLS
             c0 == idx % COLS
         IN  IF ~occ[r0][c0] \/ <<c0, r0>> \in acc.visited
             THEN scanGrid(idx + 1, occ, typeAt, fallSpeed, foot, acc)
             ELSE LET ff == floodFill(occ, <<Point(c0, r0)>>, <<>>,
                                      acc.visited \cup {<<c0, r0>>})
                      sup == isSupported(ff.cells, occ, foot)
                  IN  scanGrid(idx + 1, occ, typeAt, fallSpeed, foot,
                        [visited   |-> ff.visited,
                         newStatic |-> IF sup THEN acc.newStatic \o clusterBlocks(ff.cells, typeAt)
                                       ELSE acc.newStatic,
                         shapes    |-> IF sup THEN acc.shapes
                                       ELSE Append(acc.shapes,
                                                   clusterShape(ff.cells, typeAt, fallSpeed)),
                         comps     |-> Append(acc.comps, ff.cells)])

\* The resolver without its final swap: the shapes are appended but the
\* static list is left as it was.
resolveNoSwap(blocks, shapes, fallSpeed, foot) ==
    IF blocks = <<>> THEN [static |-> blocks, shapes |-> shapes, comps |-> <<>>]
    ELSE LET res == scanGrid(0, buildOcc(blocks), buildTypeAt(blocks), fallSpeed, foot,
                             [visited |-> {}, newStatic |-> <<>>,
                              shapes |-> shapes, comps |-> <<>>])
         IN  [static |-> blocks, shapes |-> res.shapes, comps |-> res.comps]

\* resolveFloatingClusters: the new staticBlocks and fallingShapes.
resolveFloatingClusters(blocks, shapes, fallSpeed, foot) ==
    IF blocks = <<>> THEN [static |-> blocks, shapes |-> shapes, comps |-> <<>>]
    ELSE LET res == scanGrid(0, buildOcc(blocks), buildTypeAt(blocks), fallSpeed, foot,
                             [visited |-> {}, newStatic |-> <<>>,
                              shapes |-> shapes, comps |-> <<>>])
         IN  [static |-> res.newStatic, shapes |-> res.shapes, comps |-> res.comps]

\* ------------------------------------------------------------ loop head
fallSpeed == baseFall + Min(maxExtra, elapsedTime \div RampTicks)

initialPlayer ==
    [x |-> (SCREEN_WIDTH - CELL) \div 2, y |-> SCREEN_HEIGHT - CELL - PlayerDrop,
     w |-> CELL, h |-> CELL]

\* A resetGame that leaves the shapes in flight and the freeze timer alone.
resetGameKeepsShapes ==
    /\ player' = initialPlayer
    /\ playerVy' = 0
    /\ onGround' = FALSE
    /\ staticBlocks' = <<>>
    /\ spawnTimer' = 0
    /\ elapsedTime' = 0
    /\ cdLeft' = 0 /\ cdRight' = 0 /\ cdUp' = 0 /\ cdDown' = 0
    /\ timeSinceLastPowerup' = 0
    /\ gameOver' = FALSE
    /\ UNCHANGED <<fallingShapes, freezeTimer>>

\* resetGame: every out-parameter it assigns.
resetGame ==
    /\ player' = initialPlayer
    /\ playerVy' = 0
    /\ onGround' = FALSE
    /\ staticBlocks' = <<>>
    /\ fallingShapes' = <<>>
    /\ spawnTimer' = 0
    /\ elapsedTime' = 0
    /\ cdLeft' = 0 /\ cdRight' = 0 /\ cdUp' = 0 /\ cdDown' = 0
    /\ timeSinceLastPowerup' = 0
    /\ freezeTimer' = 0
    /\ gameOver' = FALSE

Init ==
    /\ player = initialPlayer
    /\ playerVy = 0
    /\ onGround = FALSE
    /\ prevJump = FALSE
    /\ staticBlocks = <<>>
    /\ fallingShapes = <<>>
    /\ spawnTimer = 0
    /\ elapsedTime = 0
    /\ cdLeft = 0 /\ cdRight = 0 /\ cdUp = 0 /\ cdDown = 0
    /\ timeSinceLastPowerup = 0
    /\ freezeTimer = 0
    /\ gameOver = FALSE
    /\ dt = 0
    /\ pc = "timers"

\* Top of the loop body: the clamped delta, the accumulators, the freeze
\* countdown and the four cooldowns.
TimersUpTo(maxElapsed) ==
    /\ pc = "timers"
    /\ elapsedTime < maxElapsed
    /\ \E d \in 1..MaxDt :
        /\ dt' = d
        /\ elapsedTime' = IF ~gameOver THEN elapsedTime + d ELSE elapsedTime
        /\ timeSinceLastPowerup' =
               IF ~gameOver THEN timeSinceLastPowerup + d ELSE timeSinceLastPowerup
        /\ freezeTimer' = IF freezeTimer > 0 THEN Max(0, freezeTimer - d) ELSE freezeTimer
        /\ cdLeft' = Max(0, cdLeft - d)
        /\ cdRight' = Max(0, cdRight - d)
        /\ cdUp' = Max(0, cdUp - d)
        /\ cdDown' = Max(0, cdDown - d)
    /\ pc' = "input"
    /\ UNCHANGED <<staticBlocks, fallingShapes, player, playerVy, onGround, prevJump,
                   spawnTimer, gameOver>>

Timers == TimersUpTo(MaxElapsed)

\* Restart: resetGame and continue, only when the game is over and R is down.
Restart ==
    /\ pc = "input"
    /\ gameOver
    /\ resetGame
    /\ pc' = "timers"
    /\ UNCHANGED <<prevJump, dt>>

NoRestart ==
    /\ pc = "input"
    /\ pc' = "move"
    /\ UNCHANGED <<staticBlocks, fallingShapes, player, playerVy, onGround, prevJump,
                   spawnTimer, elapsedTime, cdLeft, cdRight, cdUp, cdDown,
                   timeSinceLastPowerup, freezeTimer, gameOver, dt>>

\* ------------------------------------------------------------ player movement
blockRect(b) == [x |-> b.col * CELL, y |-> b.row * CELL, w |-> CELL, h |-> CELL]

\* Horizontal collision loop: newX after testing blocks k..Len(blocks).
RECURSIVE hCollide(_, _, _, _, _)
hCollide(blocks, k, vx, newX, rect) ==
    IF k > Len(blocks) THEN newX
    ELSE LET br == blockRect(blocks[k])
             hTest == [rect EXCEPT !.x = newX]
         IN  IF rectsOverlap(hTest, br)
             THEN hCollide(blocks, k + 1, vx,
                           IF vx > 0 THEN br.x - rect.w
                           ELSE IF vx < 0 THEN br.x + br.w ELSE newX,
                           rect)
             ELSE hCollide(blocks, k + 1, vx, newX, rect)

\* Vertical collision loop over blocks k..Len(blocks); st = [y, vy, og].
RECURSIVE vCollide(_, _, _, _, _)
vCollide(blocks, k, oldPy, rect, st) ==
    IF k > Len(blocks) THEN st
    ELSE LET br == blockRect(blocks[k])
             vTest == [rect EXCEPT !.y = st.y]
         IN  IF ~rectsOverlap(vTest, br) THEN vCollide(blocks, k + 1, oldPy, rect, st)
             ELSE IF st.vy > 0 /\ oldPy + rect.h <= br.y
                  THEN vCollide(blocks, k + 1, oldPy, rect,
                                [y |-> br.y - rect.h, vy |-> 0, og |-> TRUE])
                  ELSE IF st.vy < 0 /\ oldPy >= br.y + br.h
                       THEN vCollide(blocks, k + 1, oldPy, rect,
                                     [y |-> br.y + br.h, vy |-> 0, og |-> st.og])
                       ELSE vCollide(blocks, k + 1, oldPy, rect, st)

standsOn(rect, blocks) ==
    LET footY == rect.y + rect.h
    IN  \/ footY >= SCREEN_HEIGHT - 1
        \/ \E i \in 1..Len(blocks) :
              /\ blocks[i].row * CELL = footY
              /\ rect.x + rect.w > blocks[i].col * CELL
              /\ rect.x < blocks[i].col * CELL + CELL

\* Player movement with keys A, D and SPACE.
movePlayer(keyA, keyD, jumpPressed) ==
    LET vx    == (IF keyD THEN playerSpeed ELSE 0) - (IF keyA THEN playerSpeed ELSE 0)
        rawX  == player.x + vx * dt
        clX   == IF rawX < 0 THEN 0
                 ELSE IF rawX + player.w > SCREEN_WIDTH THEN SCREEN_WIDTH - player.w
                 ELSE rawX
        newX  == hCollide(staticBlocks, 1, vx, clX, player)
        movedX == [player EXCEPT !.x = newX]
        jump  == jumpPressed /\ ~prevJump /\ onGround
        vy0   == (IF jump THEN JUMP_V ELSE playerVy) + GRAVITY * dt
        rawY  == player.y + vy0 * dt
        floor == rawY + player.h >= SCREEN_HEIGHT
        st0   == [y  |-> IF floor THEN SCREEN_HEIGHT - player.h ELSE rawY,
                  vy |-> IF floor THEN 0 ELSE vy0,
                  og |-> floor]
        st1   == vCollide(staticBlocks, 1, player.y, movedX, st0)
        moved == [movedX EXCEPT !.y = st1.y]
    IN  [player |-> moved, vy |-> st1.vy, og |-> standsOn(moved, staticBlocks)]

\* The player movement block, the keys <<A, D>> drawn from moveKeys and
\* SPACE from jumpKeys.
MoveWith(moveKeys, jumpKeys) ==
    /\ pc = "move"
    /\ \E keyA \in BOOLEAN, keyD \in BOOLEAN, jumpPressed \in jumpKeys :
        /\ <<keyA, keyD>> \in moveKeys
        /\ IF ~gameOver
           THEN LET m == movePlayer(keyA, keyD, jumpPressed)
                IN  /\ player' = m.player
                    /\ playerVy' = m.vy
                    /\ onGround' = m.og
           ELSE UNCHANGED <<player, playerVy, onGround>>
        /\ prevJump' = jumpPressed
    /\ pc' = "spawn"
    /\ UNCHANGED <<staticBlocks, fallingShapes, spawnTimer, elapsedTime,
                   cdLeft, cdRight, cdUp, cdDown, timeSinceLastPowerup,
                   freezeTimer, gameOver, dt>>

\* The key states explored: A and D together cancel (vx = 0) and are left
\* out; SPACE is not pressed.
MoveKeys == {<<FALSE, FALSE>>, <<TRUE, FALSE>>, <<FALSE, TRUE>>}
JumpKeys == {FALSE}

Move == MoveWith(MoveKeys, JumpKeys)

\* ------------------------------------------------------------ spawn
\* switch (shape): wCells and hCells of the five spawned shapes.
wCells(shape) == CASE shape = 1 -> 2 [] shape = 2 -> 4 [] OTHER -> 1
hCells(shape) == CASE shape = 3 -> 2 [] shape = 4 -> 4 [] OTHER -> 1

\* The values of rand() % 5 explored: the shapes that fit the scaled grid
\* and that are shorter than the distance fallen between two spawns, as
\* all five are in the source (4 * CELL = 120 px against 165 px).
SpawnKinds ==
    {k \in 0..4 : wCells(k) <= COLS /\ hCells(k) * CELL < spawnInterval * baseFall}
PowerTypes == {FREEZE}

\* fs.cells: dy outer, dx inner.
spawnCells(w, h) == [i \in 1..(w * h) |-> Point((i - 1) % w, (i - 1) \div w)]

\* The shape pushed by the spawn block; powerIndex < 0 means no power-up.
spawnShape(shape, col, powerIndex, pt) ==
    LET w == wCells(shape)
        h == hCells(shape)
    IN  [x |-> col * CELL, y |-> (0 - h) * CELL, speed |-> fallSpeed,
         cells |-> spawnCells(w, h),
         types |-> [i \in 1..(w * h) |-> IF i - 1 = powerIndex THEN pt ELSE NORMAL]]

\* The spawn block; rand() is drawn so that the shape is in kinds, the
\* column in cols and the power-up type in pts.
\* A spawn block whose power-ups come by chance only.
SpawnFromByChance(kinds, cols, pts) ==
    /\ pc = "spawn"
    /\ IF ~gameOver /\ spawnTimer + dt >= spawnInterval
       THEN \E shape \in kinds :
            \E col \in (0..Max(0, COLS - wCells(shape))) \cap cols :
            \E makePowerup \in BOOLEAN :
            \E powerIndex \in 0..(wCells(shape) * hCells(shape) - 1) :
            \E pt \in pts :
               /\ ~makePowerup => (powerIndex = 0 /\ pt = CHOOSE t \in pts : TRUE)
               /\ spawnTimer' = 0
               /\ fallingShapes' =
                      Append(fallingShapes,
                             spawnShape(shape, col,
                                        IF makePowerup THEN powerIndex ELSE 0 - 1, pt))
               /\ timeSinceLastPowerup' =
                      IF makePowerup THEN 0 ELSE timeSinceLastPowerup
       ELSE /\ spawnTimer' = IF ~gameOver THEN spawnTimer + dt ELSE spawnTimer
            /\ UNCHANGED <<fallingShapes, timeSinceLastPowerup>>
    /\ pc' = "fall"
    /\ UNCHANGED <<staticBlocks, player, playerVy, onGround, prevJump, elapsedTime,
                   cdLeft, cdRight, cdUp, cdDown, freezeTimer, gameOver, dt>>

SpawnFrom(kinds, cols, pts) ==
    /\ pc = "spawn"
    /\ IF ~gameOver /\ spawnTimer + dt >= spawnInterval
       THEN \E shape \in kinds :
            \E col \in (0..Max(0, COLS - wCells(shape))) \cap cols :
            \E makePowerup \in BOOLEAN :
            \E powerIndex \in 0..(wCells(shape) * hCells(shape) - 1) :
            \E pt \in pts :
               /\ timeSinceLastPowerup >= POWERUP_MAX_GAP => makePowerup
               /\ ~makePowerup => (powerIndex = 0 /\ pt = CHOOSE t \in pts : TRUE)
               /\ spawnTimer' = 0
               /\ fallingShapes' =
                      Append(fallingShapes,
                             spawnShape(shape, col,
                                        IF makePowerup THEN powerIndex ELSE 0 - 1, pt))
               /\ timeSinceLastPowerup' =
                      IF makePowerup THEN 0 ELSE timeSinceLastPowerup
       ELSE /\ spawnTimer' = IF ~gameOver THEN spawnTimer + dt ELSE spawnTimer
            /\ UNCHANGED <<fallingShapes, timeSinceLastPowerup>>
    /\ pc' = "fall"
    /\ UNCHANGED <<staticBlocks, player, playerVy, onGround, prevJump, elapsedTime,
                   cdLeft, cdRight, cdUp, cdDown, freezeTimer, gameOver, dt>>

Spawn == SpawnFrom(SpawnKinds, 0..(COLS - 1), PowerTypes)

\* ------------------------------------------------------------ FallingShapeSimulator
\* Landing candidates of shape s moved to newY, against the occupancy occ.
\* Landing candidates from the static blocks only, the floor left out.
landingCandidatesNoFloor(s, newY, occ) ==
    UNION { LET cell == s.cells[i]
                oldBottom == s.y + (cell.y + 1) * CELL
                newBottom == newY + (cell.y + 1) * CELL
                c == TruncDiv(s.x + cell.x * CELL, CELL)
            IN  IF c < 0 \/ c >= COLS THEN {}
                ELSE {r * CELL - (cell.y + 1) * CELL :
                        r \in {rr \in 0..(ROWS - 1) :
                                 /\ occ[rr][c]
                                 /\ oldBottom <= rr * CELL
                                 /\ newBottom >= rr * CELL}}
          : i \in 1..Len(s.cells) }

landingCandidates(s, newY, occ) ==
    UNION { LET cell == s.cells[i]
                oldBottom == s.y + (cell.y + 1) * CELL
                newBottom == newY + (cell.y + 1) * CELL
                c == TruncDiv(s.x + cell.x * CELL, CELL)
            IN  (IF newBottom >= SCREEN_HEIGHT
                 THEN {SCREEN_HEIGHT - (cell.y + 1) * CELL} ELSE {})
                \cup
                (IF c < 0 \/ c >= COLS THEN {}
                 ELSE {r * CELL - (cell.y + 1) * CELL :
                         r \in {rr \in 0..(ROWS - 1) :
                                  /\ occ[rr][c]
                                  /\ oldBottom <= rr * CELL
                                  /\ newBottom >= rr * CELL}})
          : i \in 1..Len(s.cells) }

\* The candidate that stops the shape lowest instead of highest.
SetMinLowest(S) == CHOOSE m \in S : \A n \in S : n <= m

SetMin(S) == CHOOSE m \in S : \A n \in S : m <= n

\* The blocks of a landed shape with the cells outside the grid kept.
RECURSIVE landedBlocksUnclipped(_, _)
landedBlocksUnclipped(s, i) ==
    IF i > Len(s.cells) THEN <<>>
    ELSE <<MkBlock(TruncDiv(s.x + s.cells[i].x * CELL, CELL),
                   TruncDiv(s.y + s.cells[i].y * CELL, CELL), s.types[i])>>
         \o landedBlocksUnclipped(s, i + 1)

\* The blocks a landed shape turns into; cells outside the grid are dropped.
RECURSIVE landedBlocks(_, _)
landedBlocks(s, i) ==
    IF i > Len(s.cells) THEN <<>>
    ELSE LET col == TruncDiv(s.x + s.cells[i].x * CELL, CELL)
             row == TruncDiv(s.y + s.cells[i].y * CELL, CELL)
         IN  (IF InGrid(col, row) THEN <<MkBlock(col, row, s.types[i])>> ELSE <<>>)
             \o landedBlocks(s, i + 1)

\* A loop that converts a landed shape and keeps it falling as well.
RECURSIVE updateShapesKeepLanded(_, _, _, _, _)
updateShapesKeepLanded(shapes, k, occ, blocks, newShapes) ==
    IF k > Len(shapes) THEN [blocks |-> blocks, shapes |-> newShapes]
    ELSE LET s == shapes[k]
             newY == s.y + s.speed * dt
             cands == landingCandidates(s, newY, occ)
             t == [s EXCEPT !.y = IF cands # {} THEN SetMin(cands) ELSE newY]
         IN  updateShapesKeepLanded(shapes, k + 1, occ,
                                    IF cands # {} THEN blocks \o landedBlocks(t, 1)
                                    ELSE blocks,
                                    Append(newShapes, t))

\* A loop that passes over the shapes of the last column: they neither
\* move nor land.
RECURSIVE updateShapesSkipLastCol(_, _, _, _, _)
updateShapesSkipLastCol(shapes, k, occ, blocks, newShapes) ==
    IF k > Len(shapes) THEN [blocks |-> blocks, shapes |-> newShapes]
    ELSE LET s == shapes[k]
             newY == s.y + s.speed * dt
             cands == landingCandidates(s, newY, occ)
         IN  IF TruncDiv(s.x, CELL) >= COLS - 1
             THEN updateShapesSkipLastCol(shapes, k + 1, occ, blocks, Append(newShapes, s))
             ELSE IF cands # {}
             THEN updateShapesSkipLastCol(shapes, k + 1, occ,
                               blocks \o landedBlocks([s EXCEPT !.y = SetMin(cands)], 1),
                               newShapes)
             ELSE updateShapesSkipLastCol(shapes, k + 1, occ, blocks,
                               Append(newShapes, [s EXCEPT !.y = newY]))

\* The for (auto &s : fallingShapes) loop; occ is built once, before it.
RECURSIVE updateShapes(_, _, _, _, _)
updateShapes(shapes, k, occ, blocks, newShapes) ==
    IF k > Len(shapes) THEN [blocks |-> blocks, shapes |-> newShapes]
    ELSE LET s == shapes[k]
             newY == s.y + s.speed * dt
             cands == landingCandidates(s, newY, occ)
         IN  IF cands # {}
             THEN updateShapes(shapes, k + 1, occ,
                               blocks \o landedBlocks([s EXCEPT !.y = SetMin(cands)], 1),
                               newShapes)
             ELSE updateShapes(shapes, k + 1, occ, blocks,
                               Append(newShapes, [s EXCEPT !.y = newY]))

\* A falling update that goes on after game over.
fallRunsAfterOver == ~(freezeTimer > 0)

fallRuns == ~gameOver /\ ~(freezeTimer > 0)

Fall ==
    /\ pc = "fall"
    /\ IF fallRuns
       THEN LET u == updateShapes(fallingShapes, 1, buildOcc(staticBlocks),
                                  staticBlocks, <<>>)
            IN  /\ staticBlocks' = u.blocks
                /\ fallingShapes' = u.shapes
       ELSE UNCHANGED <<staticBlocks, fallingShapes>>
    /\ pc' = "break"
    /\ UNCHANGED <<player, playerVy, onGround, prevJump, spawnTimer, elapsedTime,
                   cdLeft, cdRight, cdUp, cdDown, timeSinceLastPowerup,
                   freezeTimer, gameOver, dt>>

\* ------------------------------------------------------------ sequences
\* s without its element at index i.
RemoveAt(s, i) == [j \in 1..(Len(s) - 1) |-> IF j < i THEN s[j] ELSE s[j + 1]]

\* ------------------------------------------------------------ PowerEffectEngine
\* Grid cell of cell i of falling shape s, as the effects compute it.
shapeCol(s, i) == TruncDiv(s.x, CELL) + s.cells[i].x
shapeRow(s, i) == TruncDiv(s.y, CELL) + s.cells[i].y

\* A bomb area that wraps around the side edges of the grid.
hitsWrapped(type, col, row, c, r) ==
    CASE type = BOMB -> /\ \/ Abs(c - col) <= BombRad
                           \/ Abs(c - col) >= COLS - BombRad
                        /\ Abs(r - row) <= BombRad
      [] type = LASER_H -> r = row
      [] type = LASER_V -> c = col
      [] OTHER -> FALSE

\* Whether the effect of a power block of the given type broken at
\* (col, row) reaches grid cell (c, r).
hits(type, col, row, c, r) ==
    CASE type = BOMB -> Abs(c - col) <= BombRad /\ Abs(r - row) <= BombRad
      [] type = LASER_H -> r = row
      [] type = LASER_V -> c = col
      [] OTHER -> FALSE

\* A cut that takes the shape's origin for its cells' grid position.
cutShapeAtOrigin(s, type, col, row) ==
    LET keepIdx == {i \in 1..Len(s.cells) :
                       ~hits(type, col, row, TruncDiv(s.x, CELL), TruncDiv(s.y, CELL))}
        idx == [n \in 1..Cardinality(keepIdx) |->
                   CHOOSE i \in keepIdx : Cardinality({j \in keepIdx : j < i}) = n - 1]
    IN  [s EXCEPT !.cells = [n \in 1..Len(idx) |-> s.cells[idx[n]]],
                  !.types = [n \in 1..Len(idx) |-> s.types[idx[n]]]]

\* Shape s without the cells the effect reaches.
cutShape(s, type, col, row) ==
    LET keepIdx == {i \in 1..Len(s.cells) :
                       ~hits(type, col, row, shapeCol(s, i), shapeRow(s, i))}
        idx == [n \in 1..Cardinality(keepIdx) |->
                   CHOOSE i \in keepIdx : Cardinality({j \in keepIdx : j < i}) = n - 1]
    IN  [s EXCEPT !.cells = [n \in 1..Len(idx) |-> s.cells[idx[n]]],
                  !.types = [n \in 1..Len(idx) |-> s.types[idx[n]]]]

\* An effect that cuts the shapes but leaves the emptied ones in the list.
eraseHitKeepsEmpty(blocks, shapes, type, col, row) ==
    LET keepBlock(b) == ~hits(type, col, row, b.col, b.row)
    IN  [blocks |-> SelectSeq(blocks, keepBlock),
         shapes |-> [k \in 1..Len(shapes) |-> cutShape(shapes[k], type, col, row)]]

\* Remove what the effect reaches from the static blocks and from every
\* shape, then drop the shapes left without cells.
eraseHit(blocks, shapes, type, col, row) ==
    LET keepBlock(b) == ~hits(type, col, row, b.col, b.row)
        cut == [k \in 1..Len(shapes) |-> cutShape(shapes[k], type, col, row)]
        nonEmpty(fs) == fs.cells # <<>>
    IN  [blocks |-> SelectSeq(blocks, keepBlock), shapes |-> SelectSeq(cut, nonEmpty)]

\* A power effect that also sets off the FREEZE blocks it removes.
applyPowerChain(st, type, col, row) ==
    CASE type \in {BOMB, LASER_H, LASER_V} ->
           LET e == eraseHit(st.blocks, st.shapes, type, col, row)
               gone == {i \in 1..Len(st.blocks) :
                           hits(type, col, row, st.blocks[i].col, st.blocks[i].row)}
           IN  [st EXCEPT !.blocks = e.blocks, !.shapes = e.shapes,
                          !.freeze = IF \E i \in gone : st.blocks[i].type = FREEZE
                                     THEN FREEZE_DURATION ELSE st.freeze]
      [] type = FREEZE -> [st EXCEPT !.freeze = FREEZE_DURATION]
      [] OTHER -> st

\* applyPower on st = [blocks, shapes, freeze, ...]: the effect of a broken
\* block of the given type at (col, row).
applyPower(st, type, col, row) ==
    CASE type \in {BOMB, LASER_H, LASER_V} ->
           LET e == eraseHit(st.blocks, st.shapes, type, col, row)
           IN  [st EXCEPT !.blocks = e.blocks, !.shapes = e.shapes]
      [] type = FREEZE -> [st EXCEPT !.freeze = FREEZE_DURATION]
      [] OTHER -> st

\* ------------------------------------------------------------ BlockBreakController
\* Index of the first static block on (tc, tr), 0 when there is none.
firstAt(blocks, tc, tr) ==
    LET at == {i \in 1..Len(blocks) : blocks[i].col = tc /\ blocks[i].row = tr}
    IN  IF at = {} THEN 0 ELSE SetMin(at)

\* A break test that forgets the cooldown.
breakOkNoCooldown(blocks, tc, tr, cd) ==
    /\ ~(tc < 0 \/ tc >= COLS \/ tr < 0 \/ tr >= ROWS)
    /\ firstAt(blocks, tc, tr) # 0

\* breakAt succeeds: cooldown elapsed, target in the grid, a block on it.
breakOk(blocks, tc, tr, cd) ==
    /\ ~(cd > 0)
    /\ ~(tc < 0 \/ tc >= COLS \/ tr < 0 \/ tr >= ROWS)
    /\ firstAt(blocks, tc, tr) # 0

\* A breakAt with one cooldown shared by the four directions.
breakAtSharedCooldown(st, tc, tr, dir) ==
    IF breakOk(st.blocks, tc, tr, st[dir])
    THEN LET i == firstAt(st.blocks, tc, tr)
         IN  [ok |-> TRUE, usedType |-> st.blocks[i].type,
              st |-> [st EXCEPT !.blocks = RemoveAt(st.blocks, i),
                                !.cdLeft = ABILITY_CD, !.cdRight = ABILITY_CD,
                                !.cdUp = ABILITY_CD, !.cdDown = ABILITY_CD]]
    ELSE [ok |-> FALSE, usedType |-> NORMAL, st |-> st]

\* breakAt on st = [blocks, shapes, freeze, cdLeft, cdRight, cdUp, cdDown];
\* dir names the cooldown field passed by reference.  The result holds the
\* return value, the type written to usedType and the state left behind.
breakAt(st, tc, tr, dir) ==
    IF breakOk(st.blocks, tc, tr, st[dir])
    THEN LET i == firstAt(st.blocks, tc, tr)
         IN  [ok |-> TRUE, usedType |-> st.blocks[i].type,
              st |-> [st EXCEPT !.blocks = RemoveAt(st.blocks, i),
                                ![dir] = ABILITY_CD]]
    ELSE [ok |-> FALSE, usedType |-> NORMAL, st |-> st]

\* if (keys[dir]) { if (breakAt(tc, tr, cd, usedType)) applyPower(usedType, tc, tr); }
breakDir(st, key, tc, tr, dir) ==
    IF key
    THEN LET b == breakAt(st, tc, tr, dir)
         IN  IF b.ok THEN applyPower(b.st, b.usedType, tc, tr) ELSE st
    ELSE st

breakAll(st, pCol, pRow, kL, kR, kU, kD) ==
    LET s1 == breakDir(st, kL, pCol - 1, pRow, "cdLeft")
        s2 == breakDir(s1, kR, pCol + 1, pRow, "cdRight")
        s3 == breakDir(s2, kU, pCol, pRow - 1, "cdUp")
    IN  breakDir(s3, kD, pCol, pRow + 1, "cdDown")

\* The directional abilities block, the arrow keys <<LEFT, RIGHT, UP, DOWN>>
\* drawn from arrowKeys.
BreakWith(arrowKeys) ==
    /\ pc = "break"
    /\ IF ~gameOver
       THEN \E keys \in arrowKeys :
              LET st == [blocks |-> staticBlocks, shapes |-> fallingShapes,
                         freeze |-> freezeTimer, cdLeft |-> cdLeft, cdRight |-> cdRight,
                         cdUp |-> cdUp, cdDown |-> cdDown]
                  r == breakAll(st, TruncDiv(player.x, CELL), TruncDiv(player.y, CELL),
                                keys[1], keys[2], keys[3], keys[4])
              IN  /\ staticBlocks' = r.blocks
                  /\ fallingShapes' = r.shapes
                  /\ freezeTimer' = r.freeze
                  /\ cdLeft' = r.cdLeft /\ cdRight' = r.cdRight
                  /\ cdUp' = r.cdUp /\ cdDown' = r.cdDown
       ELSE UNCHANGED <<staticBlocks, fallingShapes, freezeTimer,
                        cdLeft, cdRight, cdUp, cdDown>>
    /\ pc' = "rowclear"
    /\ UNCHANGED <<player, playerVy, onGround, prevJump, spawnTimer, elapsedTime,
                   timeSinceLastPowerup, gameOver, dt>>

ArrowKeys == BOOLEAN \X BOOLEAN \X BOOLEAN \X BOOLEAN

Break == BreakWith(ArrowKeys)

\* ------------------------------------------------------------ RowClearEngine
fullRows(blocks) ==
    LET occ == buildOcc(blocks)
    IN  {r \in 0..(ROWS - 1) : \A c \in 0..(COLS - 1) : occ[r][c]}

\* A row clear that shifts every survivor by the number of full rows,
\* wherever they are.
clearRowsShiftAll(blocks) ==
    LET full == fullRows(blocks)
        keep(b) == b.row \notin full
        left == SelectSeq(blocks, keep)
    IN  IF full = {} THEN blocks
        ELSE [i \in 1..Len(left) |->
                 [left[i] EXCEPT !.row = left[i].row + Cardinality(full)]]

\* Erase the blocks of the full rows, then shift each survivor down by the
\* number of full rows below it.
clearRows(blocks) ==
    LET full == fullRows(blocks)
        keep(b) == b.row \notin full
        left == SelectSeq(blocks, keep)
    IN  IF full = {} THEN blocks
        ELSE [i \in 1..Len(left) |->
                 [left[i] EXCEPT !.row = left[i].row +
                                         Cardinality({fr \in full : fr > left[i].row})]]

\* A loop body whose row clear comes too late for this tick's resolver.
RowClearSkipped ==
    /\ pc = "rowclear"
    /\ pc' = "resolve"
    /\ UNCHANGED <<staticBlocks, fallingShapes, player, playerVy, onGround, prevJump,
                   spawnTimer, elapsedTime, cdLeft, cdRight, cdUp, cdDown,
                   timeSinceLastPowerup, freezeTimer, gameOver, dt>>

RowClear ==
    /\ pc = "rowclear"
    /\ staticBlocks' = IF ~gameOver /\ staticBlocks # <<>>
                       THEN clearRows(staticBlocks) ELSE staticBlocks
    /\ pc' = "resolve"
    /\ UNCHANGED <<fallingShapes, player, playerVy, onGround, prevJump, spawnTimer,
                   elapsedTime, cdLeft, cdRight, cdUp, cdDown, timeSinceLastPowerup,
                   freezeTimer, gameOver, dt>>

\* ------------------------------------------------------------ resolver call
\* The player's inclusive cell ranges handed to resolveFloatingClusters.
footprint(rect) ==
    [left  |-> TruncDiv(rect.x, CELL),
     right |-> TruncDiv(rect.x + rect.w - 1, CELL),
     top   |-> TruncDiv(rect.y, CELL),
     bot   |-> TruncDiv(rect.y + rect.h - 1, CELL)]

\* A resolver call that ignores the freeze.
resolveRunsFrozen == ~gameOver

\* A resolver call that waits until no shape is in flight.
resolveRunsAirClear == ~gameOver /\ freezeTimer <= 0 /\ fallingShapes = <<>>

resolveRuns == ~gameOver /\ freezeTimer <= 0

Resolve ==
    /\ pc = "resolve"
    /\ IF resolveRuns
       THEN LET r == resolveFloatingClusters(staticBlocks, fallingShapes, fallSpeed,
                                             footprint(player))
            IN  /\ staticBlocks' = r.static
                /\ fallingShapes' = r.shapes
       ELSE UNCHANGED <<staticBlocks, fallingShapes>>
    /\ pc' = "gameover"
    /\ UNCHANGED <<player, playerVy, onGround, prevJump, spawnTimer, elapsedTime,
                   cdLeft, cdRight, cdUp, cdDown, timeSinceLastPowerup,
                   freezeTimer, gameOver, dt>>

\* ------------------------------------------------------------ game over check
\* A top test that lets row 0 pass.
reachedTopStrict(blocks) == \E i \in 1..Len(blocks) : blocks[i].row < 0

reachedTop(blocks) == \E i \in 1..Len(blocks) : blocks[i].row <= 0

\* A game-over check that waits for the freeze to end.
GameOverCheckUnfrozen ==
    /\ pc = "gameover"
    /\ gameOver' = (gameOver \/ (freezeTimer <= 0 /\ reachedTop(staticBlocks)))
    /\ pc' = "timers"
    /\ UNCHANGED <<staticBlocks, fallingShapes, player, playerVy, onGround, prevJump,
                   spawnTimer, elapsedTime, cdLeft, cdRight, cdUp, cdDown,
                   timeSinceLastPowerup, freezeTimer, dt>>

GameOverCheck ==
    /\ pc = "gameover"
    /\ gameOver' = (gameOver \/ reachedTop(staticBlocks))
    /\ pc' = "timers"
    /\ UNCHANGED <<staticBlocks, fallingShapes, player, playerVy, onGround, prevJump,
                   spawnTimer, elapsedTime, cdLeft, cdRight, cdUp, cdDown,
                   timeSinceLastPowerup, freezeTimer, dt>>

Next ==
    \/ Timers
    \/ Restart
    \/ NoRestart
    \/ Move
    \/ Spawn
    \/ Fall
    \/ Break
    \/ RowClear
    \/ Resolve
    \/ GameOverCheck

Spec == Init /\ [][Next]_vars

\* ------------------------------------------------------------ long runs
\* The same loop followed for longer with fewer inputs: the player stands
\* still and may press LEFT or RIGHT, and every spawn is a single cell in
\* the first or the last column.
TimersDeep == TimersUpTo(MaxElapsedDeep)
MoveDeep == MoveWith({<<FALSE, FALSE>>}, {FALSE})
SpawnDeep == SpawnFrom({0}, {0, COLS - 1}, {FREEZE})
BreakDeep ==
    BreakWith({<<FALSE, FALSE, FALSE, FALSE>>, <<TRUE, FALSE, FALSE, FALSE>>,
               <<FALSE, TRUE, FALSE, FALSE>>})

NextDeep ==
    \/ TimersDeep
    \/ Restart
    \/ NoRestart
    \/ MoveDeep
    \/ SpawnDeep
    \/ Fall
    \/ BreakDeep
    \/ RowClear
    \/ Resolve
    \/ GameOverCheck

SpecDeep == Init /\ [][NextDeep]_vars

\* ------------------------------------------------------------ stage harness
\* Every grid of the scaled size as a block list in row-major order, each
\* cell empty or holding a block, at most MaxPowerBlocks of them BOMB blocks
\* and the others NORMAL.
MaxPowerBlocks == 1

RECURSIVE listsFrom(_, _)
listsFrom(idx, power) ==
    IF idx >= ROWS * COLS THEN {<<>>}
    ELSE LET c == idx % COLS
             r == idx \div COLS
             rest == listsFrom(idx + 1, power)
         IN  rest
             \cup {<<MkBlock(c, r, NORMAL)>> \o l : l \in rest}
             \cup (IF power = 0 THEN {}
                   ELSE {<<MkBlock(c, r, BOMB)>> \o l : l \in listsFrom(idx + 1, power - 1)})

GridLists == listsFrom(0, MaxPowerBlocks)

\* The same with a second block on the first cell of a short list: the
\* landing update can leave two blocks on one cell.
MaxDupLen == 2
DupLists ==
    {l \o <<[l[1] EXCEPT !.type = FREEZE]>> :
       l \in {g \in GridLists : Len(g) >= 1 /\ Len(g) <= MaxDupLen}}

\* Player rectangles: on the floor or one pixel below the top, at the left
\* edge or astride two columns.
PlayerSpots ==
    {[x |-> px, y |-> py, w |-> CELL, h |-> CELL] :
       px \in {0, SCREEN_WIDTH - CELL - 1}, py \in {1, SCREEN_HEIGHT - CELL}}

\* A state of a running game about to enter the given stage.
StageInit(stage, blocks, rect) ==
    /\ player = rect
    /\ playerVy = 0
    /\ onGround = FALSE
    /\ prevJump = FALSE
    /\ staticBlocks = blocks
    /\ fallingShapes = <<>>
    /\ spawnTimer = 0
    /\ elapsedTime = 1
    /\ cdLeft = 0 /\ cdRight = 0 /\ cdUp = 0 /\ cdDown = 0
    /\ timeSinceLastPowerup = 1
    /\ freezeTimer = 0
    /\ gameOver = FALSE
    /\ dt = 1
    /\ pc = stage

\* resolveFloatingClusters called twice in a row on the same footprint.
InitResolve ==
    \E blocks \in GridLists \cup DupLists, rect \in PlayerSpots :
        StageInit("call1", blocks, rect)

ResolveCall ==
    /\ pc \in {"call1", "call2"}
    /\ LET r == resolveFloatingClusters(staticBlocks, fallingShapes, fallSpeed,
                                        footprint(player))
       IN  /\ staticBlocks' = r.static
           /\ fallingShapes' = r.shapes
    /\ pc' = IF pc = "call1" THEN "call2" ELSE "done"
    /\ UNCHANGED <<player, playerVy, onGround, prevJump, spawnTimer, elapsedTime,
                   cdLeft, cdRight, cdUp, cdDown, timeSinceLastPowerup,
                   freezeTimer, gameOver, dt>>

SpecResolve == InitResolve /\ [][ResolveCall]_vars

\* The row-clear stage on every grid.
InitRowClear ==
    \E blocks \in GridLists \cup DupLists : StageInit("rowclear", blocks, initialPlayer)

SpecRowClear == InitRowClear /\ [][RowClear]_vars

\* The break stage followed by the row clear, on small grids holding power
\* blocks of every type, with shapes in the air and cooldowns running.
MaxBreakBlocks == 3
MaxBreakPowers == 2
PowerKinds == {BOMB, FREEZE, LASER_H, LASER_V}

RECURSIVE breakLists(_, _, _)
breakLists(idx, n, power) ==
    IF idx >= ROWS * COLS \/ n = 0 THEN {<<>>}
    ELSE LET c == idx % COLS
             r == idx \div COLS
         IN  breakLists(idx + 1, n, power)
             \cup {<<MkBlock(c, r, NORMAL)>> \o l : l \in breakLists(idx + 1, n - 1, power)}
             \cup (IF power = 0 THEN {}
                   ELSE {<<MkBlock(c, r, t)>> \o l :
                            t \in PowerKinds, l \in breakLists(idx + 1, n - 1, power - 1)})

\* Shapes in the air: a column of two astride rows 0 and 1 of column 0, and
\* a bar of two just above the top edge of the last two columns, which
\* int(y / CELL) puts in row 0.
AirShapes ==
    {<<>>,
     <<[x |-> 0, y |-> 1, speed |-> baseFall,
        cells |-> <<Point(0, 0), Point(0, 1)>>, types |-> <<NORMAL, LASER_H>>],
       [x |-> (COLS - 2) * CELL, y |-> 0 - 1, speed |-> baseFall,
        cells |-> <<Point(0, 0), Point(1, 0)>>, types |-> <<FREEZE, NORMAL>>]>>}

InitBreak ==
    \E blocks \in breakLists(0, MaxBreakBlocks, MaxBreakPowers) \cup DupLists,
       rect \in PlayerSpots, shapes \in AirShapes, busy \in BOOLEAN :
        /\ busy => shapes # <<>>
        /\ player = rect
        /\ playerVy = 0
        /\ onGround = FALSE
        /\ prevJump = FALSE
        /\ staticBlocks = blocks
        /\ fallingShapes = shapes
        /\ spawnTimer = 0
        /\ elapsedTime = 1
        /\ cdLeft = (IF busy THEN 1 ELSE 0) /\ cdRight = 0
        /\ cdUp = (IF busy THEN 1 ELSE 0) /\ cdDown = 0
        /\ timeSinceLastPowerup = 1
        /\ freezeTimer = (IF busy THEN 1 ELSE 0)
        /\ gameOver = FALSE
        /\ dt = 1
        /\ pc = "break"

\* No key, one arrow key, or all four.
HarnessKeys ==
    {k \in ArrowKeys :
        Cardinality({i \in 1..4 : k[i]}) \in {0, 1, 4}}
BreakStage == BreakWith(HarnessKeys)

NextBreak == BreakStage \/ RowClear

SpecBreak == InitBreak /\ [][NextBreak]_vars

\* Two ticks of the whole loop from the middle of a game: a small stack, no
\* block in the top row, no full row, every block supported unless a freeze
\* is on, shapes about to land, a spawn due, the player on the floor.
MaxTickElapsed == 3
MaxTickBlocks == 3
MaxTickPowers == 1

Settled(blocks, rect) ==
    resolveFloatingClusters(blocks, <<>>, baseFall, footprint(rect)).shapes = <<>>

\* A single cell one pixel above the floor of the last column, and a single
\* cell one pixel above row 0 of the first column.
LandingShapes ==
    LET low  == [x |-> (COLS - 1) * CELL, y |-> SCREEN_HEIGHT - CELL - 1,
                 speed |-> baseFall, cells |-> <<Point(0, 0)>>, types |-> <<NORMAL>>]
        high == [x |-> 0, y |-> 0 - 1,
                 speed |-> baseFall, cells |-> <<Point(0, 0)>>, types |-> <<BOMB>>]
    IN  {<<>>, <<low>>, <<high, low>>}

InitTick ==
    \E blocks \in breakLists(0, MaxTickBlocks, MaxTickPowers),
       px \in {0, CELL}, shapes \in LandingShapes,
       frozen \in BOOLEAN, busy \in BOOLEAN :
        LET rect == [x |-> px, y |-> SCREEN_HEIGHT - CELL, w |-> CELL, h |-> CELL]
        IN  /\ ~reachedTop(blocks)
            /\ fullRows(blocks) = {}
            /\ ~frozen => Settled(blocks, rect)
            /\ player = rect
            /\ playerVy = 0
            /\ onGround = TRUE
            /\ prevJump = FALSE
            /\ staticBlocks = blocks
            /\ fallingShapes = shapes
            /\ spawnTimer = spawnInterval - 1
            /\ elapsedTime = 1
            /\ cdLeft = (IF busy THEN ABILITY_CD ELSE 0) /\ cdRight = 0
            /\ cdUp = 0 /\ cdDown = 0
            /\ timeSinceLastPowerup = 1
            /\ freezeTimer = (IF frozen THEN 2 ELSE 0)
            /\ gameOver = FALSE
            /\ dt = 0
            /\ pc = "timers"

TimersTick == TimersUpTo(MaxTickElapsed)
SpawnTick == SpawnFrom({0}, {0}, {FREEZE})

NextTick ==
    \/ TimersTick
    \/ Restart
    \/ NoRestart
    \/ MoveDeep
    \/ SpawnTick
    \/ Fall
    \/ BreakStage
    \/ RowClear
    \/ Resolve
    \/ GameOverCheck

SpecTick == InitTick /\ [][NextTick]_vars

\* ============================================================ properties
SameCell(a, b) == a.col = b.col /\ a.row = b.row

\* C1: in every reachable state, also in the middle of a tick and during a
\* freeze, staticBlocks holds at most one Block per (col,row) cell.
C1_OneBlockPerCell ==
    \A i, j \in 1..Len(staticBlocks) :
        i # j => ~SameCell(staticBlocks[i], staticBlocks[j])

\* C2: when the falling update lands a shape, no Block it appends is on the
\* cell of a Block that was in staticBlocks when the shape was converted:
\* the blocks before the stage, and the blocks appended earlier in it (the
\* cells of one shape are distinct, so these are the blocks of other shapes).
C2_LandingNoOverlap ==
    [][pc = "fall" =>
         \A j \in (Len(staticBlocks) + 1)..Len(staticBlocks') :
             \A i \in 1..(j - 1) : ~SameCell(staticBlocks'[i], staticBlocks'[j])]_vars

\* The offsets of every falling shape are distinct, which is what makes
\* the reading of C2 above exact.
ShapeOffsetsDistinct ==
    \A k \in 1..Len(fallingShapes) :
        \A i, j \in 1..Len(fallingShapes[k].cells) :
            i # j => fallingShapes[k].cells[i] # fallingShapes[k].cells[j]

\* ------------------------------------------------------------ C3..C6
\* The occupied in-grid cells of the static blocks, as <<col, row>> pairs.
OccupiedCells ==
    {<<staticBlocks[i].col, staticBlocks[i].row>> : i \in
         {k \in 1..Len(staticBlocks) : InGrid(staticBlocks[k].col, staticBlocks[k].row)}}

CellSet(cells) == {<<cells[i].x, cells[i].y>> : i \in 1..Len(cells)}
Adjacent(a, b) == Abs(a[1] - b[1]) + Abs(a[2] - b[2]) = 1

\* The cells of within that a path of 4-neighbours inside within joins to S.
RECURSIVE Closure(_, _)
Closure(S, within) ==
    LET T == S \cup {q \in within : \E p \in S : Adjacent(p, q)}
    IN  IF T = S THEN S ELSE Closure(T, within)

RECURSIVE SumLen(_)
SumLen(ss) == IF ss = <<>> THEN 0 ELSE Len(Head(ss)) + SumLen(Tail(ss))

\* The components the resolver collects on the current grid and footprint.
CollectedComps ==
    resolveFloatingClusters(staticBlocks, fallingShapes, fallSpeed,
                            footprint(player)).comps

\* C3: the components collected by resolveFloatingClusters partition exactly
\* the occupied in-grid cells, and each is a maximal 4-connected set.
C3_ComponentsPartition ==
    pc = "call1" =>
        LET comps == CollectedComps
        IN  /\ UNION {CellSet(comps[k]) : k \in 1..Len(comps)} = OccupiedCells
            /\ SumLen(comps) = Cardinality(OccupiedCells)
            /\ \A k \in 1..Len(comps) :
                  /\ comps[k] # <<>>
                  /\ Closure({<<comps[k][1].x, comps[k][1].y>>}, CellSet(comps[k]))
                         = CellSet(comps[k])
                  /\ \A p \in CellSet(comps[k]) : \A q \in OccupiedCells :
                         Adjacent(p, q) => q \in CellSet(comps[k])

\* A grid on which the flood fill has to go down, sideways and up again:
\* two components, one of them bent around an empty cell.
C3_Witness ==
    /\ pc = "call1"
    /\ Len(CollectedComps) = 2
    /\ \E k \in 1..2 : \E c \in 0..(COLS - 3), r \in 0..(ROWS - 2) :
          /\ {<<c, r>>, <<c + 2, r>>, <<c, r + 1>>, <<c + 1, r + 1>>, <<c + 2, r + 1>>}
                 \subseteq CellSet(CollectedComps[k])
          /\ <<c + 1, r>> \notin OccupiedCells

\* The three support rules read off the grid and the player rectangle.
HasGroundCell(comp) == \E p \in CellSet(comp) : p[2] = ROWS - 1
HasExternalBelow(comp) ==
    \E p \in CellSet(comp) :
        <<p[1], p[2] + 1>> \in OccupiedCells \ CellSet(comp)
HasPlayerBelow(comp) ==
    \E p \in CellSet(comp) :
        /\ p[2] + 1 >= TruncDiv(player.y, CELL)
        /\ p[2] + 1 <= TruncDiv(player.y + player.h - 1, CELL)
        /\ p[1] >= TruncDiv(player.x, CELL)
        /\ p[1] <= TruncDiv(player.x + player.w - 1, CELL)

\* What the call made of a component: its cells kept as static blocks, or
\* taken out of staticBlocks.
KeptStatic(comp) ==
    \A p \in CellSet(comp) :
        \E i \in 1..Len(staticBlocks') :
            staticBlocks'[i].col = p[1] /\ staticBlocks'[i].row = p[2]
TakenOut(comp) ==
    \A p \in CellSet(comp) :
        \A i \in 1..Len(staticBlocks') :
            ~(staticBlocks'[i].col = p[1] /\ staticBlocks'[i].row = p[2])

\* C4: a component with a cell at row ROWS-1 is classified supported; one
\* with no such cell, no occupied cell outside it directly below a member
\* and no member directly above the player footprint is classified floating.
C4_SupportClassification ==
    [][pc = "call1" =>
         \A k \in 1..Len(CollectedComps) :
             LET comp == CollectedComps[k]
             IN  /\ HasGroundCell(comp) => KeptStatic(comp)
                 /\ (~HasGroundCell(comp) /\ ~HasExternalBelow(comp)
                        /\ ~HasPlayerBelow(comp)) => TakenOut(comp)]_vars

\* After a call that kept one component and made another fall.
C4_Witness ==
    /\ pc = "call2"
    /\ staticBlocks # <<>>
    /\ fallingShapes # <<>>
    /\ \E i \in 1..Len(staticBlocks) : staticBlocks[i].row = ROWS - 1

\* The type the resolver reads for a cell: that of the last block on it.
LastTypeAt(c, r) ==
    LET at == {i \in 1..Len(staticBlocks) :
                  staticBlocks[i].col = c /\ staticBlocks[i].row = r}
    IN  staticBlocks[CHOOSE i \in at : \A j \in at : j <= i].type

Floats(comp) == ~HasGroundCell(comp) /\ ~HasExternalBelow(comp) /\ ~HasPlayerBelow(comp)

\* The floating components in the order they are collected.
FloatingComps == SelectSeq(CollectedComps, Floats)

MinOver(S) == CHOOSE m \in S : \A n \in S : m <= n

\* C5: every floating component becomes exactly one new FallingShape, placed
\* at the top-left corner of its bounding box, with one cell per member cell
\* at that cell's offset from the corner and of that cell's type, and its
\* blocks leave staticBlocks.
C5_ClusterToShape ==
    [][pc = "call1" =>
         LET fl == FloatingComps
             n0 == Len(fallingShapes)
         IN  /\ Len(fallingShapes') = n0 + Len(fl)
             /\ SubSeq(fallingShapes', 1, n0) = fallingShapes
             /\ \A k \in 1..Len(fl) :
                   LET comp == fl[k]
                       fs == fallingShapes'[n0 + k]
                       minC == MinOver({p[1] : p \in CellSet(comp)})
                       minR == MinOver({p[2] : p \in CellSet(comp)})
                   IN  /\ fs.x = minC * CELL /\ fs.y = minR * CELL
                       /\ Len(fs.cells) = Len(comp) /\ Len(fs.types) = Len(comp)
                       /\ Cardinality(CellSet(fs.cells)) = Len(comp)
                       /\ \A p \in CellSet(comp) :
                             \E i \in 1..Len(fs.cells) :
                                 /\ fs.cells[i] = Point(p[1] - minC, p[2] - minR)
                                 /\ fs.types[i] = LastTypeAt(p[1], p[2])
                       /\ \E i \in 1..Len(fs.cells) : fs.cells[i].x = 0
                       /\ \E i \in 1..Len(fs.cells) : fs.cells[i].y = 0
                       /\ TakenOut(comp)
             \* a column of two blocks with nothing below and no player beneath:
             \* one shape at the upper block's row with offsets (0,0), (0,1)
             /\ (/\ \E c \in 0..(COLS - 1) :
                       staticBlocks = <<MkBlock(c, 0, NORMAL), MkBlock(c, 1, NORMAL)>>
                 /\ ~HasPlayerBelow(CollectedComps[1]))
                => /\ Len(fallingShapes') = n0 + 1
                   /\ fallingShapes'[n0 + 1].y = 0
                   /\ fallingShapes'[n0 + 1].cells = <<Point(0, 0), Point(0, 1)>>
                   /\ staticBlocks' = <<>>]_vars

\* After a call that made two components fall, one of them of three cells
\* or more off the left edge and holding a power block.
C5_Witness ==
    /\ pc = "call2"
    /\ Len(fallingShapes) >= 2
    /\ \E k \in 1..Len(fallingShapes) :
          /\ Len(fallingShapes[k].cells) >= 3
          /\ fallingShapes[k].x > 0
          /\ \E i \in 1..Len(fallingShapes[k].types) : fallingShapes[k].types[i] = BOMB
          /\ \E i \in 1..Len(fallingShapes[k].cells) : fallingShapes[k].cells[i].x > 0
          /\ \E i \in 1..Len(fallingShapes[k].cells) : fallingShapes[k].cells[i].y > 0

BlockSet(blocks) == {blocks[i] : i \in 1..Len(blocks)}

\* C6: a second call of resolveFloatingClusters with the same footprint and
\* no mutation in between leaves the set of static blocks as the first call
\* left it and appends no FallingShape.
C6_ResolveFixedPoint ==
    [][pc = "call2" =>
         /\ BlockSet(staticBlocks') = BlockSet(staticBlocks)
         /\ fallingShapes' = fallingShapes]_vars

\* After the second call, the first one having kept some blocks and made
\* others fall.
C6_Witness ==
    /\ pc = "done"
    /\ staticBlocks # <<>>
    /\ Len(fallingShapes) >= 1

\* ------------------------------------------------------------ C7
\* The rows in which every column holds a block.
FullRowSet ==
    {r \in 0..(ROWS - 1) :
        \A c \in 0..(COLS - 1) :
            \E i \in 1..Len(staticBlocks) :
                staticBlocks[i].col = c /\ staticBlocks[i].row = r}

NotInFullRow(b) == b.row \notin FullRowSet
Survivors == SelectSeq(staticBlocks, NotInFullRow)

\* C7: the row-clear step removes exactly the blocks of the full rows; each
\* survivor keeps its column and type and moves down by the number of full
\* rows of greater index, counted on the rows as they were before the step.
C7_RowClearShift ==
    [][(pc = "rowclear" /\ ~gameOver) =>
         /\ Len(staticBlocks') = Len(Survivors)
         /\ \A i \in 1..Len(Survivors) :
               /\ staticBlocks'[i].col = Survivors[i].col
               /\ staticBlocks'[i].type = Survivors[i].type
               /\ staticBlocks'[i].row =
                      Survivors[i].row +
                      Cardinality({fr \in FullRowSet : fr > Survivors[i].row})
         \* the bottom row alone full: it goes, a block of the top row moves
         \* down one row
         /\ FullRowSet = {ROWS - 1} =>
               /\ Len(staticBlocks') = Len(staticBlocks) - COLS
               /\ \A i \in 1..Len(staticBlocks) :
                     staticBlocks[i].row = 0 =>
                         \E j \in 1..Len(staticBlocks') :
                             staticBlocks'[j] = [staticBlocks[i] EXCEPT !.row = 1]]_vars

\* A grid about to be cleared with two full rows apart and a survivor in
\* between, which has one full row below it and one above.
C7_Witness ==
    /\ pc = "rowclear"
    /\ ~gameOver
    /\ \E lo, hi \in FullRowSet : hi > lo + 1
    /\ \E i \in 1..Len(Survivors) :
          Cardinality({fr \in FullRowSet : fr > Survivors[i].row}) = 1

\* ------------------------------------------------------------ C8
ShapeOrigins(shapes) == {<<shapes[k].x, shapes[k].y>> : k \in 1..Len(shapes)}

\* C8: in the stages of a tick run with freezeTimer > 0, the falling update
\* moves no shape and lands none, the resolver turns no static block into a
\* FallingShape, and no stage changes the origin of a shape already in
\* fallingShapes; the resolver stage of the tick that broke a FREEZE block
\* finds freezeTimer > 0 and is among them.
C8_FreezeHoldsShapes ==
    [][(freezeTimer > 0 /\ ~gameOver) =>
         /\ pc \in {"fall", "resolve"} =>
               (fallingShapes' = fallingShapes /\ staticBlocks' = staticBlocks)
         /\ pc = "spawn" =>
               SubSeq(fallingShapes', 1, Len(fallingShapes)) = fallingShapes
         /\ pc \in {"move", "break", "rowclear", "gameover"} =>
               ShapeOrigins(fallingShapes') \subseteq ShapeOrigins(fallingShapes)]_vars

\* After the resolver stage of a frozen tick: a shape hangs in the air and
\* a static component the resolver would make fall is still static.
C8_Witness ==
    /\ pc = "gameover"
    /\ freezeTimer > 0
    /\ ~gameOver
    /\ fallingShapes # <<>>
    /\ staticBlocks # <<>>
    /\ resolveFloatingClusters(staticBlocks, fallingShapes, fallSpeed,
                               footprint(player)).shapes # fallingShapes

C10_TopRowMeansOver ==
    pc = "timers" =>
        ((\E i \in 1..Len(staticBlocks) : staticBlocks[i].row <= 0) => gameOver)

\* The boundary after the tick in which a block came to rest in row 0.
C10_Witness ==
    /\ pc = "timers"
    /\ gameOver
    /\ \E i \in 1..Len(staticBlocks) : staticBlocks[i].row = 0

\* ------------------------------------------------------------ C11, C12
\* The player's cell and the four break targets, as the break stage
\* computes them.
PCol == TruncDiv(player.x, CELL)
PRow == TruncDiv(player.y, CELL)
Dirs == {"cdLeft", "cdRight", "cdUp", "cdDown"}
TargetCol(d) == CASE d = "cdLeft" -> PCol - 1 [] d = "cdRight" -> PCol + 1 [] OTHER -> PCol
TargetRow(d) == CASE d = "cdUp" -> PRow - 1 [] d = "cdDown" -> PRow + 1 [] OTHER -> PRow
Cooldown(d) ==
    CASE d = "cdLeft" -> cdLeft [] d = "cdRight" -> cdRight
      [] d = "cdUp" -> cdUp [] OTHER -> cdDown
CooldownAfter(d) ==
    CASE d = "cdLeft" -> cdLeft' [] d = "cdRight" -> cdRight'
      [] d = "cdUp" -> cdUp' [] OTHER -> cdDown'

BlocksOn(blocks, c, r) == {i \in 1..Len(blocks) : blocks[i].col = c /\ blocks[i].row = r}

\* Direction d cannot break: cooldown running, target off the grid, or no
\* static block on the target.
CannotBreak(d) ==
    \/ Cooldown(d) > 0
    \/ TargetCol(d) < 0 \/ TargetCol(d) >= COLS
    \/ TargetRow(d) < 0 \/ TargetRow(d) >= ROWS
    \/ BlocksOn(staticBlocks, TargetCol(d), TargetRow(d)) = {}

\* The break stage broke a block in direction d: the cooldown, which the
\* decay keeps below ABILITY_CD, was set to it.
Broke(d) == Cooldown(d) < ABILITY_CD /\ CooldownAfter(d) = ABILITY_CD

\* The state record the break stage works on.
BreakState ==
    [blocks |-> staticBlocks, shapes |-> fallingShapes, freeze |-> freezeTimer,
     cdLeft |-> cdLeft, cdRight |-> cdRight, cdUp |-> cdUp, cdDown |-> cdDown]

\* C11: breakAt fails when its cooldown is running, the target is outside
\* the grid or no static block is on the target; it then returns false and
\* leaves everything as it was, and a break stage in which every direction
\* fails changes neither list, no cooldown and not the freeze timer.
C11_FailedBreak ==
    [][(pc = "break" /\ ~gameOver) =>
         /\ \A d \in Dirs :
               CannotBreak(d) =>
                  /\ ~breakAt(BreakState, TargetCol(d), TargetRow(d), d).ok
                  /\ breakAt(BreakState, TargetCol(d), TargetRow(d), d).st = BreakState
                  /\ CooldownAfter(d) = Cooldown(d)
         /\ (\A d \in Dirs : CannotBreak(d)) =>
               UNCHANGED <<staticBlocks, fallingShapes, cdLeft, cdRight, cdUp, cdDown,
                           freezeTimer>>]_vars

\* After a break stage in which RIGHT broke a block while LEFT, its cooldown
\* running, left a power block on its target, UP pointed off the grid and
\* DOWN at an empty cell.
C11_Witness ==
    /\ pc = "rowclear"
    /\ cdRight = ABILITY_CD
    /\ cdLeft > 0 /\ cdLeft < ABILITY_CD
    /\ \E i \in BlocksOn(staticBlocks, PCol - 1, PRow) : staticBlocks[i].type # NORMAL
    /\ PRow = 0
    /\ cdDown = 0
    /\ BlocksOn(staticBlocks, PCol, PRow + 1) = {}
    /\ fallingShapes # <<>>

\* C12: a successful break leaves no static block on the target cell and
\* sets that direction's cooldown to ABILITY_CD; breakAt itself removes one
\* block of the target cell, leaves every other block as it was and hands
\* the removed block's type on.
C12_BreakRemovesBlock ==
    [][(pc = "break" /\ ~gameOver) =>
         \A d \in Dirs :
            /\ Broke(d) => BlocksOn(staticBlocks', TargetCol(d), TargetRow(d)) = {}
            /\ LET b == breakAt(BreakState, TargetCol(d), TargetRow(d), d)
               IN  b.ok =>
                     /\ BlocksOn(b.st.blocks, TargetCol(d), TargetRow(d)) = {}
                     /\ b.st[d] = ABILITY_CD
                     /\ \E i \in BlocksOn(staticBlocks, TargetCol(d), TargetRow(d)) :
                           /\ b.st.blocks = RemoveAt(staticBlocks, i)
                           /\ b.usedType = staticBlocks[i].type]_vars

\* ------------------------------------------------------------ C13..C15
\* The type of the block a break in direction d removes: the first block of
\* the list on the target cell.
BrokenType(d) ==
    staticBlocks[MinOver(BlocksOn(staticBlocks, TargetCol(d), TargetRow(d)))].type

\* What the break stage broke: for each direction the type of the block it
\* removed, "none" where it broke nothing.
BrokenNow == [d \in Dirs |-> IF Broke(d) THEN BrokenType(d) ELSE "none"]

\* Grid cell (c, r) lies in the area of the power block broken in direction
\* d, brk telling what was broken.
Reached(brk, d, c, r) ==
    CASE brk[d] = BOMB ->
            /\ Abs(c - TargetCol(d)) <= BombRad
            /\ Abs(r - TargetRow(d)) <= BombRad
      [] brk[d] = LASER_H -> r = TargetRow(d)
      [] brk[d] = LASER_V -> c = TargetCol(d)
      [] OTHER -> FALSE

\* The elements of seq at the indices K, in order.
PickSeq(seq, K) ==
    LET idx == K
    IN  [n \in 1..Cardinality(idx) |->
            seq[CHOOSE i \in idx : Cardinality({j \in idx : j < i}) = n - 1]]

\* The static blocks that are neither the block a direction broke nor in the
\* area of a broken power block.
UntouchedBlocks(brk) ==
    {i \in 1..Len(staticBlocks) :
        /\ \A d \in Dirs :
              brk[d] # "none" =>
                 i # MinOver(BlocksOn(staticBlocks, TargetCol(d), TargetRow(d)))
        /\ \A d \in Dirs : ~Reached(brk, d, staticBlocks[i].col, staticBlocks[i].row)}

\* Grid cell of cell i of shape s: int(x / CELL) + cx, int(y / CELL) + cy.
CellCol(s, i) == TruncDiv(s.x, CELL) + s.cells[i].x
CellRow(s, i) == TruncDiv(s.y, CELL) + s.cells[i].y

UntouchedCells(brk, s) ==
    {i \in 1..Len(s.cells) :
        \A d \in Dirs : ~Reached(brk, d, CellCol(s, i), CellRow(s, i))}

\* Shape s with the cells at the indices K only.
KeepCells(s, K) == [s EXCEPT !.cells = PickSeq(s.cells, K), !.types = PickSeq(s.types, K)]

\* The sequence of shapes without the empty ones.
HasCells(s) == s.cells # <<>>

\* The shapes cut down to their untouched cells, those left empty dropped.
UntouchedShapes(brk) ==
    SelectSeq([k \in 1..Len(fallingShapes) |->
                  KeepCells(fallingShapes[k], UntouchedCells(brk, fallingShapes[k]))],
              HasCells)

\* C13: the freeze timer is set, and blocks and shape cells other than the
\* broken block go, only in a break stage in which breakAt succeeded on a
\* block of that power type; a power block removed by a bomb, a laser or a
\* row clear sets nothing off; breaking NORMAL blocks only removes them and
\* sets their cooldowns.
C13_PowerOnlyOnBreak ==
    [][~gameOver =>
         /\ pc = "break" =>
               /\ freezeTimer' # freezeTimer =>
                     /\ freezeTimer' = FREEZE_DURATION
                     /\ \E d \in Dirs : Broke(d) /\ BrokenType(d) = FREEZE
               /\ LET brk == BrokenNow
                  IN  /\ staticBlocks' = PickSeq(staticBlocks, UntouchedBlocks(brk))
                      /\ fallingShapes' = UntouchedShapes(brk)
               /\ (\A d \in Dirs : Broke(d) => BrokenType(d) = NORMAL) =>
                     /\ UNCHANGED <<fallingShapes, freezeTimer>>
                     /\ Len(staticBlocks') =
                            Len(staticBlocks) - Cardinality({d \in Dirs : Broke(d)})
                     /\ \A d \in Dirs : ~Broke(d) => CooldownAfter(d) = Cooldown(d)
         /\ pc \in {"move", "spawn", "fall", "rowclear", "resolve", "gameover"} =>
               freezeTimer' = freezeTimer
         /\ pc = "rowclear" => fallingShapes' = fallingShapes]_vars

\* A break stage about to start, not frozen, RIGHT free and pointing at a
\* BOMB with a FREEZE block in its area, and a FREEZE cell of a shape in
\* the area too.
C13_Witness ==
    /\ pc = "break"
    /\ ~gameOver
    /\ freezeTimer = 0
    /\ cdRight = 0
    /\ \E i \in BlocksOn(staticBlocks, PCol + 1, PRow) : staticBlocks[i].type = BOMB
    /\ \E i \in 1..Len(staticBlocks) :
          /\ staticBlocks[i].type = FREEZE
          /\ Abs(staticBlocks[i].col - (PCol + 1)) <= BombRad
          /\ Abs(staticBlocks[i].row - PRow) <= BombRad
    /\ \E k \in 1..Len(fallingShapes) : \E i \in 1..Len(fallingShapes[k].cells) :
          /\ fallingShapes[k].types[i] = FREEZE
          /\ Abs(CellCol(fallingShapes[k], i) - (PCol + 1)) <= BombRad
          /\ Abs(CellRow(fallingShapes[k], i) - PRow) <= BombRad

\* Exactly direction d broke a block in this break stage, of type t.
OnlyBroke(d, t) ==
    /\ Broke(d)
    /\ BrokenType(d) = t
    /\ \A e \in Dirs \ {d} : ~Broke(e)

InSquare(c, r, d) ==
    /\ Abs(c - TargetCol(d)) <= BombRad
    /\ Abs(r - TargetRow(d)) <= BombRad

\* C14: breaking a BOMB block removes the static blocks and the shape cells
\* whose grid cell is within BombRad of it on both axes, and nothing else:
\* what lies outside keeps its place, order and type, also across the grid
\* from a bomb near an edge.
C14_BombSquare ==
    [][(pc = "break" /\ ~gameOver) =>
         \A d \in Dirs :
            OnlyBroke(d, BOMB) =>
               /\ staticBlocks' =
                     PickSeq(staticBlocks,
                             {i \in 1..Len(staticBlocks) :
                                 ~InSquare(staticBlocks[i].col, staticBlocks[i].row, d)})
               /\ fallingShapes' =
                     SelectSeq([k \in 1..Len(fallingShapes) |->
                                   KeepCells(fallingShapes[k],
                                             {i \in 1..Len(fallingShapes[k].cells) :
                                                 ~InSquare(CellCol(fallingShapes[k], i),
                                                           CellRow(fallingShapes[k], i), d)})],
                               HasCells)
               /\ \A i \in 1..Len(staticBlocks) :
                     Abs(staticBlocks[i].col - TargetCol(d)) > BombRad =>
                        \E j \in 1..Len(staticBlocks') : staticBlocks'[j] = staticBlocks[i]]_vars

\* A break stage about to start with a free direction pointing at a BOMB in
\* an edge column, a block at the far side of the grid, a block in the
\* bomb's area, and shapes with cells inside and outside the area.
C14_Witness ==
    /\ pc = "break"
    /\ ~gameOver
    /\ \E d \in {"cdLeft", "cdRight"} :
          /\ ~CannotBreak(d)
          /\ \A e \in Dirs \ {d} : CannotBreak(e)
          /\ BlocksOn(staticBlocks, TargetCol(d), TargetRow(d)) # {}
          /\ BrokenType(d) = BOMB
          /\ TargetCol(d) \in {0, COLS - 1}
          /\ \E i \in 1..Len(staticBlocks) :
                Abs(staticBlocks[i].col - TargetCol(d)) = COLS - 1
          /\ \E i \in 1..Len(staticBlocks) :
                /\ InSquare(staticBlocks[i].col, staticBlocks[i].row, d)
                /\ staticBlocks[i].col # TargetCol(d)
          /\ \E k \in 1..Len(fallingShapes) :
                /\ \E i \in 1..Len(fallingShapes[k].cells) :
                      InSquare(CellCol(fallingShapes[k], i), CellRow(fallingShapes[k], i), d)
                /\ \E i \in 1..Len(fallingShapes[k].cells) :
                      ~InSquare(CellCol(fallingShapes[k], i), CellRow(fallingShapes[k], i), d)

\* Cell i of shape k counts as grid row r, as grid column c.
OnRow(k, i, r) == CellRow(fallingShapes[k], i) = r
OnCol(k, i, c) == CellCol(fallingShapes[k], i) = c

\* C15: breaking a LASER_H block removes exactly the static blocks of its
\* row and the shape cells whose grid row is that row; breaking a LASER_V
\* block does the same with its column; everything else stays as it was.
C15_LaserLine ==
    [][(pc = "break" /\ ~gameOver) =>
         \A d \in Dirs :
            /\ OnlyBroke(d, LASER_H) =>
                  /\ staticBlocks' =
                        PickSeq(staticBlocks,
                                {i \in 1..Len(staticBlocks) :
                                    staticBlocks[i].row # TargetRow(d)})
                  /\ fallingShapes' =
                        SelectSeq([k \in 1..Len(fallingShapes) |->
                                      KeepCells(fallingShapes[k],
                                                {i \in 1..Len(fallingShapes[k].cells) :
                                                    ~OnRow(k, i, TargetRow(d))})],
                                  HasCells)
            /\ OnlyBroke(d, LASER_V) =>
                  /\ staticBlocks' =
                        PickSeq(staticBlocks,
                                {i \in 1..Len(staticBlocks) :
                                    staticBlocks[i].col # TargetCol(d)})
                  /\ fallingShapes' =
                        SelectSeq([k \in 1..Len(fallingShapes) |->
                                      KeepCells(fallingShapes[k],
                                                {i \in 1..Len(fallingShapes[k].cells) :
                                                    ~OnCol(k, i, TargetCol(d))})],
                                  HasCells)]_vars

\* A break stage about to start with one free direction pointing at a
\* LASER_H block in row 0, another block in that row, one in another row,
\* and a shape just above the top edge whose cells count as row 0.
C15_Witness ==
    /\ pc = "break"
    /\ ~gameOver
    /\ \E d \in Dirs :
          /\ ~CannotBreak(d)
          /\ \A e \in Dirs \ {d} : CannotBreak(e)
          /\ BlocksOn(staticBlocks, TargetCol(d), TargetRow(d)) # {}
          /\ BrokenType(d) = LASER_H
          /\ TargetRow(d) = 0
          /\ \E i \in 1..Len(staticBlocks) :
                staticBlocks[i].row = 0 /\ staticBlocks[i].col # TargetCol(d)
          /\ \E i \in 1..Len(staticBlocks) : staticBlocks[i].row # 0
          /\ \E k \in 1..Len(fallingShapes) :
                /\ fallingShapes[k].y < 0
                /\ \A i \in 1..Len(fallingShapes[k].cells) : OnRow(k, i, 0)

\* ------------------------------------------------------------ C16
StageAfter(p) ==
    CASE p = "timers" -> "input"
      [] p = "input" -> "move"
      [] p = "move" -> "spawn"
      [] p = "spawn" -> "fall"
      [] p = "fall" -> "break"
      [] p = "break" -> "rowclear"
      [] p = "rowclear" -> "resolve"
      [] p = "resolve" -> "gameover"
      [] OTHER -> "timers"

\* C16: in a tick of a running game the stages follow one another in the
\* order decay, (movement,) spawn, falling, break, row clear, resolution,
\* game-over check, each changing only what is its own; the resolver finds
\* no full row left, and the game-over check decides on the blocks the
\* resolver left, none of them floating unless a freeze is on.
C16_StageOrder ==
    [][~gameOver =>
         /\ pc' = StageAfter(pc)
         /\ pc # "timers" =>
               /\ UNCHANGED <<elapsedTime, dt>>
               /\ \A d \in Dirs : CooldownAfter(d) >= Cooldown(d)
         /\ pc # "timers" /\ pc # "break" => freezeTimer' = freezeTimer
         /\ pc # "spawn" => spawnTimer' = spawnTimer
         /\ pc \notin {"spawn", "fall", "break", "resolve"} =>
               fallingShapes' = fallingShapes
         /\ pc \notin {"fall", "break", "rowclear", "resolve"} =>
               staticBlocks' = staticBlocks
         /\ pc # "gameover" => gameOver' = gameOver
         /\ pc = "spawn" => SubSeq(fallingShapes', 1, Len(fallingShapes)) = fallingShapes
         /\ pc = "resolve" => FullRowSet = {}
         /\ pc = "gameover" =>
               /\ gameOver' = (\E i \in 1..Len(staticBlocks) : staticBlocks[i].row <= 0)
               /\ FullRowSet = {}
               /\ freezeTimer <= 0 =>
                     \A k \in 1..Len(CollectedComps) : ~Floats(CollectedComps[k])]_vars

\* The row clear of a second tick about to run on a grid with a full row
\* and a block above it, a shape in the air.
C16_Witness ==
    /\ pc = "rowclear"
    /\ ~gameOver
    /\ elapsedTime = MaxTickElapsed
    /\ FullRowSet # {}
    /\ Survivors # <<>>
    /\ fallingShapes # <<>>

\* ------------------------------------------------------------ C17
\* Height and width in cells of shape s.
MaxOver(S) == CHOOSE m \in S : \A n \in S : n <= m
ShapeH(s) == 1 + MaxOver({s.cells[i].y : i \in 1..Len(s.cells)})
ShapeW(s) == 1 + MaxOver({s.cells[i].x : i \in 1..Len(s.cells)})

\* C17: with the freeze timer running, a due spawn still appends a shape at
\* its spawn position just above the grid, a break that succeeds still
\* removes a block of its target cell, the row clear still removes the full
\* rows and shifts the rest, and the game-over check still ends the game on
\* a block with row <= 0.
C17_FrozenStagesRun ==
    [][(freezeTimer > 0 /\ ~gameOver) =>
         /\ (pc = "spawn" /\ spawnTimer + dt >= spawnInterval) =>
               /\ Len(fallingShapes') = Len(fallingShapes) + 1
               /\ SubSeq(fallingShapes', 1, Len(fallingShapes)) = fallingShapes
               /\ LET s == fallingShapes'[Len(fallingShapes')]
                  IN  /\ s.cells # <<>>
                      /\ s.y = 0 - ShapeH(s) * CELL
                      /\ s.x % CELL = 0
                      /\ s.x >= 0 /\ s.x + ShapeW(s) * CELL <= SCREEN_WIDTH
               /\ spawnTimer' = 0
         /\ pc = "break" =>
               \A d \in Dirs :
                  Broke(d) =>
                     Cardinality(BlocksOn(staticBlocks', TargetCol(d), TargetRow(d)))
                        < Cardinality(BlocksOn(staticBlocks, TargetCol(d), TargetRow(d)))
         /\ pc = "rowclear" =>
               /\ Len(staticBlocks') = Len(Survivors)
               /\ \A i \in 1..Len(Survivors) :
                     staticBlocks'[i] =
                        [Survivors[i] EXCEPT
                            !.row = @ + Cardinality({fr \in FullRowSet : fr > Survivors[i].row})]
         /\ pc = "gameover" =>
               ((\E i \in 1..Len(staticBlocks) : staticBlocks[i].row <= 0) => gameOver')]_vars

\* The game-over check of a frozen tick about to end the game, shapes
\* hanging in the air: the FREEZE block was broken in this tick, after a
\* landing in the top row.
C17_Witness ==
    /\ pc = "gameover"
    /\ freezeTimer = FREEZE_DURATION
    /\ ~gameOver
    /\ \E i \in 1..Len(staticBlocks) : staticBlocks[i].row = 0
    /\ fallingShapes # <<>>

\* ------------------------------------------------------------ falling update
\* The falling update alone, on every way a shape can hang over a settled
\* grid: the spawned kinds that fit the grid and one three-cell cluster as
\* the resolver builds them, at every column and height above the blocks
\* of their columns, alone or followed by a single cell in the first column.
MaxFallBlocks == 4

ClusterL ==
    [x |-> 0, y |-> 0, speed |-> baseFall,
     cells |-> <<Point(0, 0), Point(0, 1), Point(1, 1)>>,
     types |-> <<NORMAL, FREEZE, NORMAL>>]

\* Every cell of s inside the screen sideways and above the floor, and above
\* every block of its column.
Hangs(s, blocks) ==
    \A i \in 1..Len(s.cells) :
        LET c == TruncDiv(s.x + s.cells[i].x * CELL, CELL)
            bottom == s.y + (s.cells[i].y + 1) * CELL
        IN  /\ c >= 0 /\ c < COLS
            /\ bottom < SCREEN_HEIGHT
            /\ \A k \in 1..Len(blocks) :
                  blocks[k].col = c => bottom <= blocks[k].row * CELL

FallShapes(blocks) ==
    {s \in {[t EXCEPT !.x = col * CELL, !.y = y] :
              t \in {spawnShape(k, 0, 0, LASER_H) : k \in {0, 1, 3}} \cup {ClusterL},
              col \in 0..(COLS - 1),
              y \in (0 - 2 * CELL)..(SCREEN_HEIGHT - CELL - 1)} :
       Hangs(s, blocks)}

InitFall ==
    /\ elapsedTime = 1
    /\ \E blocks \in {l \in listsFrom(0, 0) : Len(l) <= MaxFallBlocks} :
       \E s \in FallShapes(blocks), more \in BOOLEAN, frozen \in BOOLEAN :
           LET single == [x |-> 0, y |-> 0 - CELL, speed |-> baseFall,
                          cells |-> <<Point(0, 0)>>, types |-> <<NORMAL>>]
           IN  /\ ~reachedTop(blocks)
               /\ fullRows(blocks) = {}
               /\ Settled(blocks, initialPlayer)
               /\ player = initialPlayer
               /\ playerVy = 0
               /\ onGround = TRUE
               /\ prevJump = FALSE
               /\ staticBlocks = blocks
               /\ fallingShapes = (IF more THEN <<s, single>> ELSE <<s>>)
               /\ spawnTimer = 0
               /\ cdLeft = 0 /\ cdRight = 0 /\ cdUp = 0 /\ cdDown = 0
               /\ timeSinceLastPowerup = 1
               /\ freezeTimer = (IF frozen THEN 1 ELSE 0)
               /\ gameOver = FALSE
               /\ dt = 1
               /\ pc = "fall"

SpecFall == InitFall /\ [][Fall]_vars

\* The falling update as a function of its inputs: the same states, and
\* the same with the first shape falling more than one cell in the step, so
\* that cells of one shape can reach obstacles at different heights.
FastFall == CELL + baseFall

InitFallFast ==
    /\ elapsedTime = 1
    /\ \E blocks \in {l \in listsFrom(0, 0) : Len(l) <= MaxFallBlocks} :
       \E s \in FallShapes(blocks), v \in {baseFall, FastFall} :
           /\ ~reachedTop(blocks)
           /\ fullRows(blocks) = {}
           /\ Settled(blocks, initialPlayer)
           /\ player = initialPlayer
           /\ playerVy = 0
           /\ onGround = TRUE
           /\ prevJump = FALSE
           /\ staticBlocks = blocks
           /\ fallingShapes = <<[s EXCEPT !.speed = v]>>
           /\ spawnTimer = 0
           /\ cdLeft = 0 /\ cdRight = 0 /\ cdUp = 0 /\ cdDown = 0
           /\ timeSinceLastPowerup = 1
           /\ freezeTimer = 0
           /\ gameOver = FALSE
           /\ dt = 1
           /\ pc = "fall"

SpecFallFast == InitFallFast /\ [][Fall]_vars

\* The rest of the tick after the same states: falling update, break
\* dispatch, row clear, resolver and game-over check.
NextLand ==
    \/ Fall
    \/ BreakDeep
    \/ RowClear
    \/ Resolve
    \/ GameOverCheck

SpecLand == InitFall /\ [][NextLand]_vars

\* ------------------------------------------------------------ endless runs
\* The loop without a horizon.  elapsedTime is read only through fallSpeed,
\* which stops growing, so it is held at MaxLiveElapsed once it gets there.
\* The player stands on the floor of the middle column and may press LEFT
\* or RIGHT; single cells spawn in the first column, and the power-ups
\* spawned are never FREEZE, so that FREEZE blocks, of which the first
\* states hold at most one, are broken finitely often.
MaxLiveElapsed == 2

TimersLive ==
    /\ pc = "timers"
    /\ \E d \in 1..MaxDt :
        /\ dt' = d
        /\ elapsedTime' = IF ~gameOver THEN Min(MaxLiveElapsed, elapsedTime + d)
                          ELSE elapsedTime
        /\ timeSinceLastPowerup' =
               IF ~gameOver THEN timeSinceLastPowerup + d ELSE timeSinceLastPowerup
        /\ freezeTimer' = IF freezeTimer > 0 THEN Max(0, freezeTimer - d) ELSE freezeTimer
        /\ cdLeft' = Max(0, cdLeft - d)
        /\ cdRight' = Max(0, cdRight - d)
        /\ cdUp' = Max(0, cdUp - d)
        /\ cdDown' = Max(0, cdDown - d)
    /\ pc' = "input"
    /\ UNCHANGED <<staticBlocks, fallingShapes, player, playerVy, onGround, prevJump,
                   spawnTimer, gameOver>>

SpawnLive == SpawnFrom({0}, {0}, {LASER_H})

LiveGrids ==
    {<<>>,
     <<MkBlock(0, ROWS - 1, FREEZE)>>,
     <<MkBlock(0, ROWS - 1, NORMAL), MkBlock(0, ROWS - 2, FREEZE)>>}

InitLive ==
    \E blocks \in LiveGrids, shapes \in LandingShapes, frozen \in BOOLEAN :
        /\ player = [x |-> CELL, y |-> SCREEN_HEIGHT - CELL, w |-> CELL, h |-> CELL]
        /\ playerVy = 0
        /\ onGround = TRUE
        /\ prevJump = FALSE
        /\ staticBlocks = blocks
        /\ fallingShapes = shapes
        /\ spawnTimer = 0
        /\ elapsedTime = 1
        /\ cdLeft = 0 /\ cdRight = 0 /\ cdUp = 0 /\ cdDown = 0
        /\ timeSinceLastPowerup = 1
        /\ freezeTimer = (IF frozen THEN FREEZE_DURATION ELSE 0)
        /\ gameOver = FALSE
        /\ dt = 0
        /\ pc = "timers"

NextLive ==
    \/ TimersLive
    \/ Restart
    \/ NoRestart
    \/ MoveDeep
    \/ SpawnLive
    \/ Fall
    \/ BreakDeep
    \/ RowClear
    \/ Resolve
    \/ GameOverCheck

\* while (running): every stage of the loop body is taken when its turn
\* has come.  The resolver stage is enabled exactly while pc = "resolve"
\* and every step of it leaves that stage, so weak fairness of Resolve is
\* written as the loop not staying at that stage for ever.
FairLive ==
    /\ WF_vars(TimersLive)
    /\ WF_vars(NoRestart)
    /\ WF_vars(MoveDeep)
    /\ WF_vars(SpawnLive)
    /\ WF_vars(Fall)
    /\ WF_vars(BreakDeep)
    /\ WF_vars(RowClear)
    /\ []<>(pc # "resolve")
    /\ WF_vars(GameOverCheck)

SpecLive == InitLive /\ [][NextLive]_vars /\ FairLive

\* ------------------------------------------------------------ C18
\* C18: a cooldown is set to ABILITY_CD by a break in its own direction
\* only, and only from 0; the top of each tick takes the time delta off it,
\* not below 0, and nothing else changes it.  So after a break in direction
\* d no break in d succeeds before the deltas add up to ABILITY_CD, while
\* the other directions stay free to break in the same tick.
C18_CooldownPerDirection ==
    [][~(gameOver /\ pc = "input") =>
         \A d \in Dirs :
            /\ pc = "timers" =>
                  CooldownAfter(d) =
                     (IF Cooldown(d) - dt' > 0 THEN Cooldown(d) - dt' ELSE 0)
            /\ pc = "break" =>
                  \/ CooldownAfter(d) = Cooldown(d)
                  \/ /\ Cooldown(d) = 0
                     /\ CooldownAfter(d) = ABILITY_CD
                     /\ BlocksOn(staticBlocks, TargetCol(d), TargetRow(d)) # {}
            /\ (pc = "break" /\ Cooldown(d) > 0) =>
                  /\ CooldownAfter(d) = Cooldown(d)
                  /\ ~Broke(d)
            /\ pc \notin {"timers", "break"} => CooldownAfter(d) = Cooldown(d)]_vars

\* After the break stage of a tick in which LEFT and RIGHT both broke a
\* block (a cooldown equal to ABILITY_CD here was set in this very tick,
\* the top of the tick having taken dt off it) while UP and DOWN stayed free.
C18_Witness ==
    /\ pc = "rowclear"
    /\ elapsedTime = MaxTickElapsed
    /\ cdLeft = ABILITY_CD
    /\ cdRight = ABILITY_CD
    /\ cdUp = 0 /\ cdDown = 0

\* ------------------------------------------------------------ C19
\* A shape one falling update later, had it not landed: every cell moved
\* down by speed * dt, x, cell offsets and types as they were.
Dropped(s) == [s EXCEPT !.y = s.y + s.speed * dt]

InFlightAfter(s) == \E j \in 1..Len(fallingShapes') : fallingShapes'[j] = Dropped(s)
GoneAfter(s) == ~InFlightAfter(s)

\* The blocks of shape s set down with its origin on grid row r0: one per
\* cell inside the grid, in cell order, each with its cell's type.
RECURSIVE SetDown(_, _, _)
SetDown(s, r0, i) ==
    IF i > Len(s.cells) THEN <<>>
    ELSE LET c == (s.x \div CELL) + s.cells[i].x
             r == r0 + s.cells[i].y
         IN  (IF c >= 0 /\ c < COLS /\ r >= 0 /\ r < ROWS
              THEN <<[col |-> c, row |-> r, type |-> s.types[i]]>> ELSE <<>>)
             \o SetDown(s, r0, i + 1)

\* added, from position b on, is the shapes of gone from the k-th on set
\* down one after the other, each on some row of its own.
RECURSIVE SetDownInOrder(_, _, _, _)
SetDownInOrder(gone, k, added, b) ==
    IF k > Len(gone) THEN b = Len(added) + 1
    ELSE \E r0 \in (0 - ROWS - 1)..(ROWS - 1) :
            LET bl == SetDown(gone[k], r0, 1)
            IN  /\ b + Len(bl) - 1 <= Len(added)
                /\ \A i \in 1..Len(bl) : added[b + i - 1] = bl[i]
                /\ SetDownInOrder(gone, k + 1, added, b + Len(bl))

\* C19: a falling update keeps, in order, some of the shapes, each moved
\* down as a whole with x, cells and types unchanged; every other shape is
\* gone from fallingShapes in that step, and the static blocks gain exactly
\* the in-grid cells of the gone shapes, each shape set down rigidly on one
\* row offset with its cells' types; no shape is split.
C19_LandsAsOneUnit ==
    [][(pc = "fall" /\ ~gameOver /\ ~(freezeTimer > 0)) =>
         /\ fallingShapes' = SelectSeq([k \in 1..Len(fallingShapes) |->
                                           Dropped(fallingShapes[k])],
                                       LAMBDA t : \E j \in 1..Len(fallingShapes') :
                                                     fallingShapes'[j] = t)
         /\ Len(staticBlocks') >= Len(staticBlocks)
         /\ SubSeq(staticBlocks', 1, Len(staticBlocks)) = staticBlocks
         /\ SetDownInOrder(SelectSeq(fallingShapes, GoneAfter), 1,
                           SubSeq(staticBlocks', Len(staticBlocks) + 1,
                                  Len(staticBlocks')), 1)]_vars

\* The three-cell cluster has just landed whole on a block of its first
\* column: its lower left cell rests on that block, the cell above it and
\* the cell to the right, which hangs over an empty cell, came along.
C19_Witness ==
    /\ pc = "break"
    /\ fallingShapes = <<>>
    /\ \E c \in 0..(COLS - 2), r \in 1..(ROWS - 2) :
          /\ BlocksOn(staticBlocks, c, r) # {}
          /\ \A i \in BlocksOn(staticBlocks, c, r) : staticBlocks[i].type = FREEZE
          /\ BlocksOn(staticBlocks, c, r - 1) # {}
          /\ BlocksOn(staticBlocks, c + 1, r) # {}
          /\ BlocksOn(staticBlocks, c, r + 1) # {}
          /\ BlocksOn(staticBlocks, c + 1, r + 1) = {}

\* ------------------------------------------------------------ C20
\* added, from position b on, is the shapes of gone from the k-th on set
\* down in order, each on a row that leaves its lowest cell on or above the
\* last row of the grid.
RECURSIVE SetDownAboveFloor(_, _, _, _)
SetDownAboveFloor(gone, k, added, b) ==
    IF k > Len(gone) THEN b = Len(added) + 1
    ELSE \E r0 \in (0 - ROWS - 1)..(ROWS - ShapeH(gone[k])) :
            LET bl == SetDown(gone[k], r0, 1)
            IN  /\ b + Len(bl) - 1 <= Len(added)
                /\ \A i \in 1..Len(bl) : added[b + i - 1] = bl[i]
                /\ SetDownAboveFloor(gone, k + 1, added, b + Len(bl))

\* C20: after a falling update every cell of every shape still in flight
\* has its bottom edge strictly above SCREEN_HEIGHT, and every shape that
\* landed was set down with all its cells on rows <= ROWS - 1, none of
\* them lost below the floor.
C20_NeverBelowFloor ==
    [][(pc = "fall" /\ ~gameOver /\ ~(freezeTimer > 0)) =>
         /\ \A j \in 1..Len(fallingShapes') :
               \A i \in 1..Len(fallingShapes'[j].cells) :
                  fallingShapes'[j].y + (fallingShapes'[j].cells[i].y + 1) * CELL
                     < SCREEN_HEIGHT
         /\ \A k \in 1..Len(staticBlocks') : staticBlocks'[k].row <= ROWS - 1
         /\ SetDownAboveFloor(SelectSeq(fallingShapes, GoneAfter), 1,
                              SubSeq(staticBlocks', Len(staticBlocks) + 1,
                                     Len(staticBlocks')), 1)]_vars

\* A two-cell column has just landed on the floor of an empty column, its
\* lower cell in the last row, while the single cell above is still falling.
C20_Witness ==
    /\ pc = "break"
    /\ Len(fallingShapes) = 1
    /\ \E c \in 0..(COLS - 1) :
          /\ BlocksOn(staticBlocks, c, ROWS - 1) # {}
          /\ \A i \in BlocksOn(staticBlocks, c, ROWS - 1) : staticBlocks[i].type = NORMAL
          /\ BlocksOn(staticBlocks, c, ROWS - 2) # {}
          /\ \A i \in BlocksOn(staticBlocks, c, ROWS - 2) : staticBlocks[i].type = LASER_H

\* ------------------------------------------------------------ C21
\* C21: in every reachable state every static block has 0 <= col < COLS
\* and 0 <= row < ROWS; a landing writes no cell that falls outside the
\* grid and a row clear shifts no block past row ROWS - 1.
C21_BlocksInGrid ==
    \A i \in 1..Len(staticBlocks) :
        /\ 0 <= staticBlocks[i].col /\ staticBlocks[i].col < COLS
        /\ 0 <= staticBlocks[i].row /\ staticBlocks[i].row < ROWS

\* The falling update has run and the only shape has landed, yet no block
\* carries its power cell: that cell, the top one of a two-cell column, was
\* above row 0 and has been dropped.
C21_Witness ==
    /\ pc = "break"
    /\ freezeTimer = 0
    /\ fallingShapes = <<>>
    /\ \A i \in 1..Len(staticBlocks) : staticBlocks[i].type = NORMAL

\* ------------------------------------------------------------ C22
\* C22: the game leaves the game-over state, and the elapsed time goes
\* back, only by a reset taken at the input stage of a tick while the game
\* is over; that step empties staticBlocks and fallingShapes, zeroes the
\* spawn timer, the elapsed time, the four cooldowns, the powerup gap and
\* the freeze timer, clears gameOver, puts the player back on its initial
\* rectangle, and goes straight to the top of the next tick.
C22_ResetOnlyWhenOver ==
    [][((gameOver /\ ~gameOver') \/ elapsedTime' < elapsedTime \/
        (pc = "input" /\ pc' # "move")) =>
         /\ gameOver
         /\ pc = "input"
         /\ pc' = "timers"
         /\ staticBlocks' = <<>>
         /\ fallingShapes' = <<>>
         /\ spawnTimer' = 0
         /\ elapsedTime' = 0
         /\ cdLeft' = 0 /\ cdRight' = 0 /\ cdUp' = 0 /\ cdDown' = 0
         /\ timeSinceLastPowerup' = 0
         /\ freezeTimer' = 0
         /\ ~gameOver'
         /\ player' = initialPlayer
         /\ playerVy' = 0]_vars

\* Just after a reset: a fresh game whose last time delta is still that of
\* the tick in which the reset was taken.
C22_Witness ==
    /\ pc = "timers"
    /\ dt > 0
    /\ elapsedTime = 0
    /\ ~gameOver
    /\ staticBlocks = <<>>
    /\ fallingShapes = <<>>

\* ------------------------------------------------------------ C23
\* The landing candidates of shape s against the static blocks of the
\* state: the floor for every cell whose new bottom edge reaches
\* SCREEN_HEIGHT, and the top edge of every static block in a cell's column
\* that lies between the cell's old and new bottom edge, each turned into a
\* y of the shape's origin.
FloorCandidates(s) ==
    {SCREEN_HEIGHT - (s.cells[i].y + 1) * CELL :
       i \in {j \in 1..Len(s.cells) :
                s.y + s.speed * dt + (s.cells[j].y + 1) * CELL >= SCREEN_HEIGHT}}

BlockCandidates(s) ==
    UNION {{staticBlocks[k].row * CELL - (s.cells[i].y + 1) * CELL :
              k \in {n \in 1..Len(staticBlocks) :
                       /\ staticBlocks[n].col = (s.x \div CELL) + s.cells[i].x
                       /\ s.y + (s.cells[i].y + 1) * CELL <= staticBlocks[n].row * CELL
                       /\ staticBlocks[n].row * CELL
                             <= s.y + s.speed * dt + (s.cells[i].y + 1) * CELL}}
           : i \in 1..Len(s.cells)}

Candidates(s) == FloorCandidates(s) \cup BlockCandidates(s)
StaysUp(s) == Candidates(s) = {}

\* The blocks of the shapes from the k-th on that have a candidate, each
\* set down at its least candidate.
RECURSIVE LandAtLeast(_)
LandAtLeast(k) ==
    IF k > Len(fallingShapes) THEN <<>>
    ELSE LET s == fallingShapes[k]
         IN  (IF StaysUp(s) THEN <<>>
              ELSE SetDown(s, MinOver(Candidates(s)) \div CELL, 1))
             \o LandAtLeast(k + 1)

\* C23: in an unfrozen falling update a shape with no landing candidate
\* stays in fallingShapes with y = old y + speed * dt, and a shape with a
\* candidate lands at the least one over all its cells.
C23_LandsAtLeastCandidate ==
    [][(pc = "fall" /\ ~gameOver /\ ~(freezeTimer > 0)) =>
         /\ fallingShapes' =
               [k \in 1..Len(SelectSeq(fallingShapes, StaysUp)) |->
                   Dropped(SelectSeq(fallingShapes, StaysUp)[k])]
         /\ staticBlocks' = staticBlocks \o LandAtLeast(1)]_vars

\* The falling update is about to land the three-cell cluster, two of
\* whose cells reach obstacles at different heights in this step: there are
\* two distinct candidates and the floor is not among them.
C23_Witness ==
    /\ pc = "fall" /\ ~gameOver /\ ~(freezeTimer > 0)
    /\ \E k \in 1..Len(fallingShapes) :
          /\ Len(fallingShapes[k].cells) = 3
          /\ FloorCandidates(fallingShapes[k]) = {}
          /\ Cardinality(BlockCandidates(fallingShapes[k])) > 1

\* ------------------------------------------------------------ C24
\* C24: no shape in fallingShapes has an empty cell list, and every shape
\* has as many types as cells; a shape a BOMB or LASER effect empties is
\* gone from the list in the step of the effect.
C24_ShapesNonEmpty ==
    \A k \in 1..Len(fallingShapes) :
        /\ Len(fallingShapes[k].cells) >= 1
        /\ Len(fallingShapes[k].types) = Len(fallingShapes[k].cells)

\* After a break stage entered with two two-cell shapes in the air and
\* the LEFT and UP cooldowns running: an effect has emptied one shape,
\* which is gone, and cut the other down to a single cell.
C24_Witness ==
    /\ pc = "rowclear"
    /\ cdLeft = 1 /\ cdUp = 1
    /\ Len(fallingShapes) = 1
    /\ Len(fallingShapes[1].cells) = 1

\* ------------------------------------------------------------ C25
PowerCells(s) == {i \in 1..Len(s.types) : s.types[i] # NORMAL}
SpawnedNow == pc = "spawn" /\ Len(fallingShapes') = Len(fallingShapes) + 1
NewShape == fallingShapes'[Len(fallingShapes')]

C26_ExternalRuleIdle ==
    [][pc = "call1" =>
         \A k \in 1..Len(CollectedComps) :
             LET comp == CollectedComps[k]
             IN  /\ ~HasExternalBelow(comp)
                 /\ KeptStatic(comp) <=> (HasGroundCell(comp) \/ HasPlayerBelow(comp))
                 /\ TakenOut(comp) <=> ~(HasGroundCell(comp) \/ HasPlayerBelow(comp))]_vars

\* After a call that made a component fall which touched a block that
\* stays static only by a corner: a cell of the new shape has a static
\* block diagonally below it and none directly below.
C26_Witness ==
    /\ pc = "call2"
    /\ \E k \in 1..Len(fallingShapes) : \E i \in 1..Len(fallingShapes[k].cells) :
          LET c == (fallingShapes[k].x \div CELL) + fallingShapes[k].cells[i].x
              r == (fallingShapes[k].y \div CELL) + fallingShapes[k].cells[i].y
          IN  /\ BlocksOn(staticBlocks, c, r + 1) = {}
              /\ \/ BlocksOn(staticBlocks, c + 1, r + 1) # {}
                 \/ BlocksOn(staticBlocks, c - 1, r + 1) # {}

\* ------------------------------------------------------------ C27
\* The cells joined to cell p by 4-neighbour steps over occupied cells.
ComponentOf(p) == Closure({p}, OccupiedCells)

OnGroundOrPlayer(p) ==
    \/ p[2] = ROWS - 1
    \/ /\ p[2] + 1 >= TruncDiv(player.y, CELL)
       /\ p[2] + 1 <= TruncDiv(player.y + player.h - 1, CELL)
       /\ p[1] >= TruncDiv(player.x, CELL)
       /\ p[1] <= TruncDiv(player.x + player.w - 1, CELL)

\* C27: once the resolver stage of a tick is past, with the freeze timer
\* at 0 and the game not over, every static block is in a 4-connected
\* component of static blocks that has a cell in row ROWS - 1 or a cell
\* directly above the player's footprint of that tick.
C27_NoFloatingAfterTick ==
    (pc \in {"gameover", "timers"} /\ freezeTimer = 0 /\ ~gameOver) =>
        \A p \in OccupiedCells : \E q \in ComponentOf(p) : OnGroundOrPlayer(q)

\* The resolver has just run in a tick in which RIGHT broke a block: what
\* is left static has no cell on the floor and rests on the player alone,
\* and a shape is in the air.
C27_Witness ==
    /\ pc = "gameover"
    /\ freezeTimer = 0
    /\ ~gameOver
    /\ cdRight = ABILITY_CD
    /\ Len(staticBlocks) >= 2
    /\ \A i \in 1..Len(staticBlocks) : staticBlocks[i].row < ROWS - 1
    /\ fallingShapes # <<>>

\* ------------------------------------------------------------ C28
\* What a resolver step emits: the new static list, and the cells of the
\* shapes it appended, each as <<col, row, type>>.
EmittedStatic ==
    [i \in 1..Len(staticBlocks') |->
        <<staticBlocks'[i].col, staticBlocks'[i].row, staticBlocks'[i].type>>]

RECURSIVE EmittedShapeCells(_)
EmittedShapeCells(k) ==
    IF k > Len(fallingShapes') THEN <<>>
    ELSE LET fs == fallingShapes'[k]
         IN  [i \in 1..Len(fs.cells) |->
                 <<(fs.x \div CELL) + fs.cells[i].x, (fs.y \div CELL) + fs.cells[i].y,
                   fs.types[i]>>]
             \o EmittedShapeCells(k + 1)

Emitted == EmittedStatic \o EmittedShapeCells(Len(fallingShapes) + 1)

NoDuplicates ==
    \A i, j \in 1..Len(staticBlocks) :
        (staticBlocks[i].col = staticBlocks[j].col /\
         staticBlocks[i].row = staticBlocks[j].row) => i = j

\* C28: on a non-empty input, duplicates or not, the resolver emits exactly
\* one entry per occupied cell, in the new static list or in a new shape;
\* their number is the number of distinct occupied cells, which is the
\* input length exactly when no cell was duplicated; and every entry
\* carries the type of the last input block on its cell.
C28_OneEntryPerCell ==
    [][(pc = "call1" /\ staticBlocks # <<>>) =>
         LET e == Emitted
         IN  /\ Len(e) = Cardinality(OccupiedCells)
             /\ {<<e[i][1], e[i][2]>> : i \in 1..Len(e)} = OccupiedCells
             /\ \A i \in 1..Len(e) : e[i][3] = LastTypeAt(e[i][1], e[i][2])
             /\ (Len(e) = Len(staticBlocks)) <=> NoDuplicates]_vars

\* After a call on a grid with two blocks on one cell: the cell is left
\* with one static block, of the second block's type, and another
\* component went into a shape.
C28_Witness ==
    /\ pc = "call2"
    /\ fallingShapes # <<>>
    /\ \E i \in 1..Len(staticBlocks) :
          /\ staticBlocks[i].type = FREEZE
          /\ \A j \in 1..Len(staticBlocks) :
                (staticBlocks[j].col = staticBlocks[i].col /\
                 staticBlocks[j].row = staticBlocks[i].row) => j = i

\* ------------------------------------------------------------ C29
\* Shape t is shape s a step later: where it was or one falling update
\* lower, with cells and types of s.
Continues(s, t) ==
    /\ t.x = s.x
    /\ t.y \in {s.y, s.y + s.speed * dt}
    /\ Len(t.cells) <= Len(s.cells)
    /\ \A i \in 1..Len(t.cells) : \E j \in 1..Len(s.cells) :
          t.cells[i] = s.cells[j] /\ t.types[i] = s.types[j]

\* The oldest shape in flight leaves fallingShapes in this step.
HeadGone ==
    /\ fallingShapes # <<>>
    /\ \/ fallingShapes' = <<>>
       \/ ~Continues(Head(fallingShapes), Head(fallingShapes'))

\* C29: a running freeze always comes to its end, and no shape falls for
\* ever: unless the game is over again and again, either fallingShapes is
\* empty again and again or its oldest shape is removed again and again,
\* so that every shape in the list gets to the front and leaves it.
C29_NoShapeFallsForever ==
    /\ (freezeTimer > 0) ~> (freezeTimer = 0)
    /\ \/ []<>(fallingShapes = <<>> \/ gameOver)
       \/ []<><<HeadGone>>_vars

\* The freeze of the first state has run out in a game that is still on,
\* and the BOMB cell that hung over the first column through it has landed
\* there while another shape is falling.
C29_Witness ==
    /\ freezeTimer = 0
    /\ ~gameOver
    /\ elapsedTime = MaxLiveElapsed
    /\ fallingShapes # <<>>
    /\ \E i \in 1..Len(staticBlocks) :
          staticBlocks[i].type = BOMB /\ staticBlocks[i].col = 0

====
